---------------------------- MODULE Spec2Model ----------------------------
(***************************************************************************)
(* mini-passy: a local gateway that routes OpenAI/Anthropic style requests *)
(* to upstream providers through an alias table (packages/gateway), and    *)
(* the SDK's gateway manager that spawns and supervises the gateway as a   *)
(* subprocess (packages/sdk/src/gateway-manager.ts).                       *)
(*                                                                         *)
(* The specifications of this module share one set of variables:           *)
(*   Spec           the gateway's HTTP dispatcher and proxy engine         *)
(*   SpecStream     the upstream exchange of proxied requests, by chunk    *)
(*   SpecBody       the reading of a request body, event by event          *)
(*   SpecBodyLive   the same with clients that go on or stall              *)
(*   SpecChecked    the membership-checking variant of proxyWithFallback   *)
(*   SpecMgr        the SDK's gateway manager: ready() / url / stop()      *)
(*   SpecMgrLive    the manager with its timers running                    *)
(*   SpecBoot       the gateway's boot: loadEnv, discovery, ports          *)
(*   SpecRouter     the first-generation server and its routers            *)
(*   SpecClient     the SDK's direct client: makeRequest and its retries   *)
(*   SpecClientLive the same with fetches that settle and timers that fire *)
(***************************************************************************)
EXTENDS Integers, Sequences, FiniteSets, TLC

VARIABLES
    \* ---- gateway process (server.ts, env.ts, proxy.ts) ----
    providers,      \* env.providers: provider id -> [openai, anthropic]
    aliases,        \* env.aliases: alias name -> [targets, fallbackOn]
    req,            \* per inbound request: the handler's position and response
    \* ---- SDK gateway manager (gateway-manager.ts) ----
    gatewayProcess, \* module global: handle of the spawned child, or Null
    gatewayPort,    \* module global: cached port, or Null
    readyPromise,   \* module global: memoized ensureGateway() promise, or Null
    call,           \* ensureGateway invocations (one promise each)
    proc,           \* spawned gateway subprocesses
    foreign,        \* what other programs do on each local port
    \* ---- gateway boot (index.ts main, server.ts startServer, discovery.ts) ----
    environ,        \* process.env: the PROVIDER_<ID>_URL / _KEY entries and PORT
    occupied,       \* what holds each local port the boot may try
    boot,           \* the booting gateway process: main()'s position and locals
    watcher,        \* the spawnGateway/ensureGateway that started this gateway
    \* ---- first-generation server (server.ts with router/openai.ts, anthropic.ts) ----
    apiKeys,            \* env.openaiApiKeys / env.anthropicApiKeys, read at module load
    openaiKeyIndex,     \* router/openai.ts module global
    anthropicKeyIndex,  \* router/anthropic.ts module global
    conn,               \* per inbound connection: the handler's position and response
    picks,              \* per provider, the keys picked so far, in order
    serverUp,           \* the server process is running
    \* ---- direct client (sdk index.ts createPassy) ----
    client              \* one makeRequest call: its position, attempt and errors


gwVars   == <<providers, aliases, req>>
mgrVars  == <<gatewayProcess, gatewayPort, readyPromise, call, proc, foreign>>
bootVars == <<environ, occupied, boot, watcher>>
rtVars   == <<apiKeys, openaiKeyIndex, anthropicKeyIndex, conn, picks, serverUp>>
clVars   == <<client>>
vars     == <<providers, aliases, req,
              gatewayProcess, gatewayPort, readyPromise, call, proc, foreign,
              environ, occupied, boot, watcher,
              apiKeys, openaiKeyIndex, anthropicKeyIndex, conn, picks, serverUp,
              client>>

Null == 0

\* the parts of the state a specification does not use stay empty
NoGateway == providers = <<>> /\ aliases = <<>> /\ req = <<>>
NoBoot    == environ = <<>> /\ occupied = <<>> /\ boot = <<>> /\ watcher = <<>>
NoRouter  == /\ apiKeys = <<>> /\ openaiKeyIndex = 0 /\ anthropicKeyIndex = 0
             /\ conn = <<>> /\ picks = <<>> /\ serverUp = TRUE
NoClient  == client = <<>>

(***************************************************************************)
(*                     PART I: the gateway (Spec)                          *)
(***************************************************************************)

\* ---- bounds of the model ----
MaxRequests  == 1      \* inbound requests modelled
MaxFallbacks == 2      \* entries of ALIAS_<NAME>_FALLBACK modelled
MaxChunks    == 2      \* body chunks an upstream response emits
MaxBodyChunks == 3     \* "data" events of a request body

Requests    == 1..MaxRequests
ProviderIds == {"p1", "p2"}
AliasName   == "a"
\* model names a client may send; "A" differs from the alias only in case
ModelNames  == {"", "a", "A", "x"}
Paths       == {"/health", "/v1/models", "/v1/chat/completions", "/v1/messages", "/other"}
Methods     == {"GET", "POST"}
\* what parseBody / JSON.parse make of the client's body
BodyKinds   == {"too_large", "aborted", "badjson", "nomodel", "nonstring", "named"}
\* upstream HTTP statuses modelled: a success, a client error, rate limit, server errors
UpStatuses  == {200, 400, 429, 500, 503}

\* String.prototype.toLowerCase on the modelled names
ToLowerCase(s) == IF s = "A" THEN "a" ELSE IF s = "B" THEN "b" ELSE s

\* env.ts loadEnv: targets = primary, then every fallback that is not the primary
RECURSIVE FilterNot(_, _)
FilterNot(s, x) ==
    IF s = <<>> THEN <<>>
    ELSE IF Head(s) = x THEN FilterNot(Tail(s), x)
         ELSE <<Head(s)>> \o FilterNot(Tail(s), x)

BuildTargets(primary, fallbacks) == <<primary>> \o FilterNot(fallbacks, primary)

\* env.ts loadEnv: every alias gets the same fallback policy
DefaultFallbackOn == {"5xx", "timeout", "rate_limit"}

\* env.ts loadEnv, one ALIAS_<NAME> entry with its ALIAS_<NAME>_FALLBACK: the alias
\* record; primary and fallback keep what the two variables said
LoadAlias(primary, fallbacks) ==
    [targets |-> BuildTargets(primary, fallbacks), fallbackOn |-> DefaultFallbackOn,
     primary |-> primary, fallback |-> fallbacks]

FallbackSeqs == UNION {[1..n -> ProviderIds] : n \in 0..MaxFallbacks}

\* how an upstream call ended: an HTTP response with a status, the socket
\* timeout, a connection error; Pending while it is in flight
Pending      == [kind |-> "pending", status |-> 0]
Answered(s)  == [kind |-> "response", status |-> s]
TimedOut     == [kind |-> "timeout", status |-> 0]
Failed       == [kind |-> "error", status |-> 0]

\* the failure class of an upstream outcome (spec 4.3 step 5), "none" otherwise
FailureClass(outcome) ==
    IF outcome.kind = "timeout" THEN "timeout"
    ELSE IF outcome.kind = "response" /\ outcome.status \in 500..599 THEN "5xx"
    ELSE IF outcome.kind = "response" /\ outcome.status = 429 THEN "rate_limit"
    ELSE "none"

Qualifying(alias, outcome) == FailureClass(outcome) \in alias.fallbackOn

\* a request no client has sent yet
IdleReq == [phase |-> "idle", path |-> "", method |-> "", kind |-> "", model |-> "",
            stream |-> FALSE, errors |-> <<>>, calls |-> <<>>,
            status |-> 0, headWrites |-> 0, details |-> <<>>,
            up |-> "", emitted |-> 0, delivered |-> 0, uncaught |-> FALSE,
            totalSize |-> 0, received |-> 0, parse |-> "", inbound |-> ""]

\* server.ts sendJson: res.writeHead(status) then res.end(body); details is the
\* body's list. Once the headers of this response have been sent, writeHead throws
\* ERR_HTTP_HEADERS_SENT: out of an upstream event handler nothing catches it.
SendJson(rq, status, details) ==
    IF rq.headWrites = 0
    THEN [rq EXCEPT !.phase = "done",
                    !.status = status,
                    !.headWrites = 1,
                    !.details = details]
    ELSE [rq EXCEPT !.uncaught = TRUE]

SendError(rq, status) == SendJson(rq, status, <<>>)

\* server.ts: env.aliases.get(aliasName)
NoAlias == [targets |-> <<>>, fallbackOn |-> {}]
LookupAliasAny(name) == aliases[AliasName]
LookupAlias(name) == IF name \in DOMAIN aliases THEN aliases[name] ELSE NoAlias

\* a tryNext that gives up at the first unregistered target (used as a mutant)
TryNextGivesUp(alias, i, errors) ==
    IF i > Len(alias.targets)
    THEN [kind |-> "exhausted", idx |-> i, errors |-> errors, format |-> ""]
    ELSE IF alias.targets[i] \notin DOMAIN providers
         THEN [kind |-> "exhausted", idx |-> i + 1,
               errors |-> Append(errors, [provider |-> alias.targets[i],
                                          reason |-> "not configured"]),
               format |-> ""]
         ELSE [kind |-> "dispatch", idx |-> i, errors |-> errors,
               format |-> IF providers[alias.targets[i]].anthropic
                          THEN "anthropic" ELSE "openai"]

\* a tryNext that passes over the target after an unregistered one (used as a mutant)
RECURSIVE TryNextSkipping(_, _, _)
TryNextSkipping(alias, i, errors) ==
    IF i > Len(alias.targets)
    THEN [kind |-> "exhausted", idx |-> i, errors |-> errors, format |-> ""]
    ELSE IF alias.targets[i] \notin DOMAIN providers
         THEN TryNextSkipping(alias, i + 2,
                      Append(errors, [provider |-> alias.targets[i],
                                      reason |-> "not configured"]))
         ELSE [kind |-> "dispatch", idx |-> i, errors |-> errors,
               format |-> IF providers[alias.targets[i]].anthropic
                          THEN "anthropic" ELSE "openai"]

\* proxy.ts tryNext(targetIndex): walks the targets from index i (1-based here),
\* recording an error for every target whose provider is not registered, up to the
\* first registered provider, which is dispatched in the format discovery found
\* (anthropic if the flag is set, otherwise OpenAI as the default).
RECURSIVE TryNext(_, _, _)
TryNext(alias, i, errors) ==
    IF i > Len(alias.targets)
    THEN [kind |-> "exhausted", idx |-> i, errors |-> errors, format |-> ""]
    ELSE IF alias.targets[i] \notin DOMAIN providers
         THEN TryNext(alias, i + 1,
                      Append(errors, [provider |-> alias.targets[i],
                                      reason |-> "not configured"]))
         ELSE [kind |-> "dispatch", idx |-> i, errors |-> errors,
               format |-> IF providers[alias.targets[i]].anthropic
                          THEN "anthropic" ELSE "openai"]

\* proxy.ts proxyWithFallback from target i on: either the aggregate 502 with the
\* error list, or one upstream call (proxyRequest) now in flight.
ProxyFrom(rq, alias, i) ==
    LET t == TryNext(alias, i, rq.errors) IN
    IF t.kind = "exhausted"
    THEN SendJson([rq EXCEPT !.errors = t.errors], 502, t.errors)
    ELSE [rq EXCEPT !.phase = "upstream",
                    !.up = "open",
                    !.errors = t.errors,
                    !.calls = Append(rq.calls,
                                     [provider |-> alias.targets[t.idx],
                                      idx |-> t.idx,
                                      format |-> t.format,
                                      outcome |-> Pending])]

ProxyWithFallback(rq, alias) == ProxyFrom(rq, alias, 1)

\* server.ts handleRequest, up to its first await
HandleRequest(rq, path, method) ==
    LET q == [rq EXCEPT !.path = path, !.method = method] IN
    IF path = "/health" /\ method = "GET" THEN SendJson(q, 200, <<>>)
    ELSE IF path = "/v1/models" /\ method = "GET" THEN SendJson(q, 200, <<>>)
    ELSE IF path \in {"/v1/chat/completions", "/v1/messages"} /\ method = "POST"
         THEN [q EXCEPT !.phase = "reading"]
    ELSE SendError(q, 404)

\* server.ts handleRequest after parseBody settled. A rejected parseBody and a
\* TypeError from body.model?.toLowerCase() both land in the catch block (500).
HandleBody(rq, kind, model) ==
    LET q == [rq EXCEPT !.kind = kind, !.model = model] IN
    IF kind \in {"too_large", "aborted"} THEN SendError(q, 500)
    ELSE IF kind = "badjson" THEN SendError(q, 400)
    ELSE IF kind = "nonstring" THEN SendError(q, 500)
    ELSE IF kind = "nomodel" \/ ToLowerCase(model) = "" THEN SendError(q, 400)
    ELSE LET alias == LookupAlias(ToLowerCase(model)) IN
         IF alias = NoAlias THEN SendJson(q, 404, <<>>)
         ELSE ProxyWithFallback(q, alias)

\* the outcome of the upstream call in flight is recorded on the request (the
\* first event of the call decides it)
Settle(rq, outcome) ==
    IF rq.calls[Len(rq.calls)].outcome = Pending
    THEN [rq EXCEPT !.calls[Len(rq.calls)].outcome = outcome]
    ELSE rq

\* what a fallback-detecting response callback would do (used as a mutant)
ResponseCallbackFallbackAll(rq, status) ==
    IF status >= 400
    THEN LET q == Settle(rq, Answered(status)) IN
         ProxyFrom([q EXCEPT !.errors = Append(q.errors,
                        [provider |-> q.calls[Len(q.calls)].provider, reason |-> "status"])],
                   aliases[AliasName], q.calls[Len(q.calls)].idx + 1)
    ELSE SendJson(Settle(rq, Answered(status)), status, <<>>)

\* proxy.ts proxyRequest, the response callback: res.writeHead(upRes.statusCode)
\* and upRes.pipe(res), whatever the status is.
ResponseCallback(rq, status) ==
    [SendJson(Settle(rq, Answered(status)), status, <<>>) EXCEPT !.up = "piping"]

\* proxy.ts proxyRequest, upstream.on("error"): 502 "Upstream service unavailable"
ErrorHandler(rq) ==
    [SendJson(Settle(rq, Failed), 502, <<>>) EXCEPT !.up = "closed"]

\* proxy.ts proxyRequest, upstream.on("timeout"): destroy, then 504
TimeoutHandler(rq) ==
    [SendJson(Settle(rq, TimedOut), 504, <<>>) EXCEPT !.up = "destroyed"]

\* a pipe that holds the chunks back until the upstream ends (used as a mutant)
PipeChunkBuffered(rq) == [rq EXCEPT !.emitted = rq.emitted + 1]

\* upRes.pipe(res), a "data" event of the upstream response: the chunk is written
\* to the client's response at once
PipeChunk(rq) ==
    [rq EXCEPT !.emitted = rq.emitted + 1, !.delivered = rq.delivered + 1]

\* upRes.pipe(res), the "end" event of the upstream response: res.end()
PipeEnd(rq) == [rq EXCEPT !.up = "ended", !.delivered = rq.emitted]

\* the server process runs until an exception escapes an event handler
ServerRunning == \A r \in DOMAIN req : ~req[r].uncaught

\* ---- actions of the gateway ----

\* a client's request reaches the server; requests are numbered in arrival order
Arrive(r) ==
    /\ ServerRunning
    /\ req[r].phase = "idle"
    /\ IF r = 1 THEN TRUE ELSE req[r - 1].phase # "idle"
    /\ \E path \in Paths, method \in Methods :
          req' = [req EXCEPT ![r] = HandleRequest(req[r], path, method)]
    /\ UNCHANGED <<providers, aliases>>
    /\ UNCHANGED <<mgrVars, bootVars, rtVars, clVars>>

\* parseBody settles: the body is read (and is one of the modelled kinds) or the read fails
BodyRead(r) ==
    /\ ServerRunning
    /\ req[r].phase = "reading"
    /\ \E kind \in BodyKinds :
         \E model \in (IF kind = "named" THEN ModelNames ELSE {""}) :
            req' = [req EXCEPT ![r] = HandleBody(req[r], kind, model)]
    /\ UNCHANGED <<providers, aliases>>
    /\ UNCHANGED <<mgrVars, bootVars, rtVars, clVars>>

\* the upstream answers with an HTTP status
UpstreamResponse(r) ==
    /\ ServerRunning
    /\ req[r].up = "open"
    /\ \E status \in UpStatuses :
          req' = [req EXCEPT ![r] = ResponseCallback(req[r], status)]
    /\ UNCHANGED <<providers, aliases>>
    /\ UNCHANGED <<mgrVars, bootVars, rtVars, clVars>>

\* an error handler that takes the failed provider out of routing by clearing its
\* capability flags in the shared table (used as a mutant)
UpstreamErrorDemoting(r) ==
    /\ ServerRunning
    /\ req[r].up \in {"open", "piping", "destroyed"}
    /\ req' = [req EXCEPT ![r] = ErrorHandler(req[r])]
    /\ providers' = [providers EXCEPT
                        ![req[r].calls[Len(req[r].calls)].provider] =
                            [openai |-> FALSE, anthropic |-> FALSE]]
    /\ UNCHANGED aliases
    /\ UNCHANGED <<mgrVars, bootVars, rtVars, clVars>>

\* the upstream connection fails: before a response, while the response body is
\* piped, or as the "socket hang up" that follows upstream.destroy()
UpstreamError(r) ==
    /\ ServerRunning
    /\ req[r].up \in {"open", "piping", "destroyed"}
    /\ req' = [req EXCEPT ![r] = ErrorHandler(req[r])]
    /\ UNCHANGED <<providers, aliases>>
    /\ UNCHANGED <<mgrVars, bootVars, rtVars, clVars>>

\* the upstream socket is idle for the agent's timeout (60 s): before a response,
\* or between two chunks of the response body
UpstreamTimeout(r) ==
    /\ ServerRunning
    /\ req[r].up \in {"open", "piping"}
    /\ req' = [req EXCEPT ![r] = TimeoutHandler(req[r])]
    /\ UNCHANGED <<providers, aliases>>
    /\ UNCHANGED <<mgrVars, bootVars, rtVars, clVars>>

\* the upstream response emits a chunk of its body
UpstreamChunk(r) ==
    /\ ServerRunning
    /\ req[r].up = "piping"
    /\ req[r].emitted < MaxChunks
    /\ req' = [req EXCEPT ![r] = PipeChunk(req[r])]
    /\ UNCHANGED <<providers, aliases>>
    /\ UNCHANGED <<mgrVars, bootVars, rtVars, clVars>>

\* the upstream response ends
UpstreamEnd(r) ==
    /\ ServerRunning
    /\ req[r].up = "piping"
    /\ req' = [req EXCEPT ![r] = PipeEnd(req[r])]
    /\ UNCHANGED <<providers, aliases>>
    /\ UNCHANGED <<mgrVars, bootVars, rtVars, clVars>>

\* the manager's globals at module load (gateway-manager.ts lines 10-12)
MgrInit ==
    /\ gatewayProcess = Null
    /\ gatewayPort = Null
    /\ readyPromise = Null
    /\ call = <<>>
    /\ proc = <<>>

\* the gateway after boot: loadEnv built the tables, discovery set the flags
Init ==
    /\ \E S \in SUBSET ProviderIds :
          providers \in [S -> [openai : BOOLEAN, anthropic : BOOLEAN]]
    /\ \E primary \in ProviderIds, fallbacks \in FallbackSeqs :
          aliases = (AliasName :> LoadAlias(primary, fallbacks))
    /\ req = [r \in Requests |-> IdleReq]
    /\ MgrInit
    /\ foreign = <<>>
    /\ NoBoot
    /\ NoRouter
    /\ NoClient

Next ==
    \E r \in Requests :
        \/ Arrive(r)
        \/ BodyRead(r)
        \/ UpstreamResponse(r)
        \/ UpstreamError(r)
        \/ UpstreamTimeout(r)

Spec == Init /\ [][Next]_vars

\* ---- the upstream exchange of proxied requests in full (SpecStream) ----

\* server.ts handleRequest for POST <path> {model: <the alias>, stream: <stream>}
\* up to the dispatch of the first target; the stream flag travels in the body
Proxied(path, stream) ==
    [HandleBody(HandleRequest(IdleReq, path, "POST"), "named", AliasName)
        EXCEPT !.stream = stream]

\* every modelled request has been routed to the alias, whose targets are both
\* registered, and its first upstream call is in flight
InitStream ==
    /\ providers \in [ProviderIds -> [openai : BOOLEAN, anthropic : BOOLEAN]]
    /\ aliases = (AliasName :> LoadAlias("p1", <<"p2">>))
    /\ req \in [Requests -> {Proxied(path, stream) :
                                path \in {"/v1/chat/completions", "/v1/messages"},
                                stream \in BOOLEAN}]
    /\ MgrInit
    /\ foreign = <<>>
    /\ NoBoot
    /\ NoRouter
    /\ NoClient

NextStream ==
    \E r \in Requests :
        \/ UpstreamResponse(r)
        \/ UpstreamError(r)
        \/ UpstreamTimeout(r)
        \/ UpstreamChunk(r)
        \/ UpstreamEnd(r)

SpecStream == InitStream /\ [][NextStream]_vars

\* ---- reading the request body, event by event (SpecBody) ----

\* server.ts: const MAX_BODY_SIZE = 10 * 1024 * 1024
MAX_BODY_SIZE == 10 * 1024 * 1024

\* the lengths of the chunks a client's body arrives in
ChunkSizes == {1, MAX_BODY_SIZE \div 2, MAX_BODY_SIZE}

\* what JSON.parse and body.model make of a body that was read to its end
ReadKinds == {"badjson", "nomodel", "nonstring", "named"}

\* server.ts handleRequest for POST <path> up to await parseBody(req): the promise
\* is pending and the listeners of parseBody are attached to the request
Reading(path) ==
    [HandleRequest(IdleReq, path, "POST") EXCEPT !.parse = "pending", !.inbound = "open"]

\* a parseBody whose "data" listener has no size check (used as a mutant)
ParseDataUnbounded(rq, len) ==
    [rq EXCEPT !.totalSize = rq.totalSize + len, !.received = rq.received + 1]

\* server.ts parseBody, req.on("data"): totalSize += chunk.length; beyond
\* MAX_BODY_SIZE reject("Request body too large"), which settles the promise only
\* if it is pending; handleRequest's await then throws into its catch block
ParseData(rq, len) ==
    LET q == [rq EXCEPT !.totalSize = rq.totalSize + len,
                        !.received = rq.received + 1] IN
    IF q.totalSize > MAX_BODY_SIZE
    THEN IF q.parse = "pending"
         THEN HandleBody([q EXCEPT !.parse = "rejected"], "too_large", "")
         ELSE q
    ELSE q

\* server.ts parseBody, req.on("end"): resolve(the text), which settles the promise
\* only if it is pending; handleRequest then goes on with the text
ParseEnd(rq, kind, model) ==
    LET q == [rq EXCEPT !.inbound = "ended"] IN
    IF q.parse = "pending"
    THEN HandleBody([q EXCEPT !.parse = "resolved"], kind, model)
    ELSE q

\* server.ts parseBody, req.on("aborted") and req.on("error"): reject
ParseAborted(rq) ==
    LET q == [rq EXCEPT !.inbound = "aborted"] IN
    IF q.parse = "pending"
    THEN HandleBody([q EXCEPT !.parse = "rejected"], "aborted", "")
    ELSE q

\* the request emits a chunk of its body
BodyData(r) ==
    /\ ServerRunning
    /\ req[r].inbound = "open"
    /\ req[r].received < MaxBodyChunks
    /\ \E len \in ChunkSizes :
          req' = [req EXCEPT ![r] = ParseData(req[r], len)]
    /\ UNCHANGED <<providers, aliases>>
    /\ UNCHANGED <<mgrVars, bootVars, rtVars, clVars>>

\* the request's body is complete
BodyEnd(r) ==
    /\ ServerRunning
    /\ req[r].inbound = "open"
    /\ \E kind \in ReadKinds :
         \E model \in (IF kind = "named" THEN ModelNames ELSE {""}) :
            req' = [req EXCEPT ![r] = ParseEnd(req[r], kind, model)]
    /\ UNCHANGED <<providers, aliases>>
    /\ UNCHANGED <<mgrVars, bootVars, rtVars, clVars>>

\* the client goes away before its body is complete
BodyAborted(r) ==
    /\ ServerRunning
    /\ req[r].inbound = "open"
    /\ req' = [req EXCEPT ![r] = ParseAborted(req[r])]
    /\ UNCHANGED <<providers, aliases>>
    /\ UNCHANGED <<mgrVars, bootVars, rtVars, clVars>>

\* some configuration after boot, and every modelled request is a POST to a chat
\* endpoint whose body is about to arrive
InitBody ==
    /\ \E S \in SUBSET ProviderIds :
          providers \in [S -> [openai : BOOLEAN, anthropic : BOOLEAN]]
    /\ aliases = (AliasName :> LoadAlias("p1", <<>>))
    /\ req \in [Requests -> {Reading(path) :
                                path \in {"/v1/chat/completions", "/v1/messages"}}]
    /\ MgrInit
    /\ foreign = <<>>
    /\ NoBoot
    /\ NoRouter
    /\ NoClient

NextBody ==
    \E r \in Requests :
        \/ BodyData(r)
        \/ BodyEnd(r)
        \/ BodyAborted(r)

SpecBody == InitBody /\ [][NextBody]_vars

\* the client keeps its connection open and sends nothing more, neither a chunk
\* nor the end of its body: no listener of parseBody is called, and parseBody
\* arms no timer of its own (server.ts 9-34 has no setTimeout, startServer sets
\* no timeout on the server)
BodyStall(r) ==
    /\ ServerRunning
    /\ req[r].inbound = "open"
    /\ req' = [req EXCEPT ![r].inbound = "stalled"]
    /\ UNCHANGED <<providers, aliases>>
    /\ UNCHANGED <<mgrVars, bootVars, rtVars, clVars>>

\* an event of the request is delivered to the listeners parseBody attached
Delivered(r) ==
    \/ BodyData(r)
    \/ BodyEnd(r)
    \/ BodyAborted(r)

NextBodyLive ==
    \E r \in Requests :
        \/ BodyData(r)
        \/ BodyEnd(r)
        \/ BodyAborted(r)
        \/ BodyStall(r)

\* the reading of a body with progress: a client that has not stalled goes on
\* (sends a chunk, ends its body or goes away) and the event loop calls the
\* listeners; nothing is assumed once the client has stalled
SpecBodyLive ==
    /\ InitBody
    /\ [][NextBodyLive]_vars
    /\ \A r \in Requests : WF_vars(Delivered(r))

\* ---- the membership-checking variant of proxyWithFallback (SpecChecked) ----

\* upstream model names an alias target may carry and discovery may have listed
UpModels == {"m1", "m2"}

\* env.ts loadEnv, ALIAS_<NAME>=provider:model: every target of the alias, the
\* primary and each fallback, carries the alias's one upstream model
LoadTargets(primary, fallbacks, model) ==
    [j \in 1..Len(BuildTargets(primary, fallbacks)) |->
        [provider |-> BuildTargets(primary, fallbacks)[j], model |-> model]]

\* one entry of the variant's errors list:
\* `${target.provider}: not configured`, `...: model ${target.model} not available`,
\* `...: no compatible format`
ErrorOf(target, reason) ==
    [provider |-> target.provider, reason |-> reason,
     model |-> IF reason = "model not available" THEN target.model ELSE ""]

\* a tryNext without the membership check (used as a mutant)
RECURSIVE TryNextUnchecked(_, _, _)
TryNextUnchecked(alias, i, errors) ==
    IF i > Len(alias.targets)
    THEN [kind |-> "exhausted", idx |-> i, errors |-> errors, format |-> ""]
    ELSE LET target == alias.targets[i] IN
         IF target.provider \notin DOMAIN providers
         THEN TryNextUnchecked(alias, i + 1,
                               Append(errors, ErrorOf(target, "not configured")))
         ELSE IF providers[target.provider].openai
         THEN [kind |-> "dispatch", idx |-> i, errors |-> errors, format |-> "openai"]
         ELSE IF providers[target.provider].anthropic
         THEN [kind |-> "dispatch", idx |-> i, errors |-> errors, format |-> "anthropic"]
         ELSE TryNextUnchecked(alias, i + 1,
                               Append(errors, ErrorOf(target, "no compatible format")))

\* proxy.ts (membership-checking variant) tryNext(targetIndex), 1-based here: an
\* unregistered provider, a model that is not in provider.models and a provider
\* with neither format each push an error and go on with targetIndex + 1; the
\* first target that passes is dispatched, OpenAI format first
RECURSIVE TryNextChecking(_, _, _)
TryNextChecking(alias, i, errors) ==
    IF i > Len(alias.targets)
    THEN [kind |-> "exhausted", idx |-> i, errors |-> errors, format |-> ""]
    ELSE LET target == alias.targets[i] IN
         IF target.provider \notin DOMAIN providers
         THEN TryNextChecking(alias, i + 1,
                              Append(errors, ErrorOf(target, "not configured")))
         ELSE IF target.model \notin providers[target.provider].models
         THEN TryNextChecking(alias, i + 1,
                              Append(errors, ErrorOf(target, "model not available")))
         ELSE IF providers[target.provider].openai
         THEN [kind |-> "dispatch", idx |-> i, errors |-> errors, format |-> "openai"]
         ELSE IF providers[target.provider].anthropic
         THEN [kind |-> "dispatch", idx |-> i, errors |-> errors, format |-> "anthropic"]
         ELSE TryNextChecking(alias, i + 1,
                              Append(errors, ErrorOf(target, "no compatible format")))

\* proxy.ts (membership-checking variant) proxyWithFallback: tryNext(0), which ends
\* in the aggregate 502 "All providers failed" or in one proxyRequest
ProxyWithFallbackChecking(rq, alias) ==
    LET t == TryNextChecking(alias, 1, <<>>) IN
    IF t.kind = "exhausted"
    THEN SendJson([rq EXCEPT !.errors = t.errors], 502, t.errors)
    ELSE [rq EXCEPT !.phase = "upstream",
                    !.up = "open",
                    !.errors = t.errors,
                    !.calls = Append(rq.calls,
                                     [provider |-> alias.targets[t.idx].provider,
                                      model |-> alias.targets[t.idx].model,
                                      idx |-> t.idx,
                                      format |-> t.format,
                                      outcome |-> Pending])]

\* a chat request naming the alias has arrived and its body was read: the handler
\* hands it to proxyWithFallback
CheckedRequest(r) ==
    /\ ServerRunning
    /\ req[r].phase = "idle"
    /\ IF r = 1 THEN TRUE ELSE req[r - 1].phase # "idle"
    /\ \E path \in {"/v1/chat/completions", "/v1/messages"} :
          req' = [req EXCEPT ![r] =
                     ProxyWithFallbackChecking(
                         [HandleRequest(req[r], path, "POST")
                             EXCEPT !.kind = "named", !.model = AliasName],
                         aliases[AliasName])]
    /\ UNCHANGED <<providers, aliases>>
    /\ UNCHANGED <<mgrVars, bootVars, rtVars, clVars>>

\* the tables after boot in this variant: discovery filled in the flags and the
\* model list of every registered provider; the alias lists its targets
InitChecked ==
    /\ \E S \in SUBSET ProviderIds :
          providers \in [S -> [openai : BOOLEAN, anthropic : BOOLEAN,
                               models : SUBSET UpModels]]
    /\ \E primary \in ProviderIds, fallbacks \in FallbackSeqs, model \in UpModels :
          aliases = (AliasName :> [targets |-> LoadTargets(primary, fallbacks, model),
                                   fallbackOn |-> DefaultFallbackOn])
    /\ req = [r \in Requests |-> IdleReq]
    /\ MgrInit
    /\ foreign = <<>>
    /\ NoBoot
    /\ NoRouter
    /\ NoClient

NextChecked ==
    \E r \in Requests :
        \/ CheckedRequest(r)
        \/ UpstreamResponse(r)

SpecChecked == InitChecked /\ [][NextChecked]_vars

(***************************************************************************)
(*                 Claims about the gateway (under Spec)                   *)
(***************************************************************************)

TheAlias == aliases[AliasName]

\* the request was routed to the alias and its first upstream call has ended
FirstCallEnded(rq) ==
    /\ rq.phase = "done"
    /\ Len(rq.calls) >= 1
    /\ rq.calls[1].outcome.kind # "pending"

\* the alias has (at least) two targets, P1 and P2, both registered
TwoRegisteredTargets ==
    /\ Len(TheAlias.targets) >= 2
    /\ TheAlias.targets[1] \in DOMAIN providers
    /\ TheAlias.targets[2] \in DOMAIN providers

\* C1: with targets [P1, P2] both registered, once the request is finished and the
\* call to P1 ended in a qualifying failure (5xx, timeout, 429) that fallbackOn
\* includes, the failure was recorded and P2 was dispatched for the same request.
C1_QualifyingFailureFallsBack ==
    \A r \in Requests :
        (/\ TwoRegisteredTargets
         /\ FirstCallEnded(req[r])
         /\ Qualifying(TheAlias, req[r].calls[1].outcome))
        => (/\ Len(req[r].calls) >= 2
            /\ req[r].calls[2].provider = TheAlias.targets[2]
            /\ Len(req[r].errors) >= 1)

\* C2: when the first target's upstream answers with a non-qualifying status
\* (success, or an error such as 400), the caller gets exactly that status, written
\* once, and no second target is ever dispatched for the request.
C2_NonQualifyingRelayed ==
    \A r \in Requests :
        (/\ Len(req[r].calls) >= 1
         /\ req[r].calls[1].outcome.kind = "response"
         /\ ~Qualifying(TheAlias, req[r].calls[1].outcome))
        => (/\ req[r].phase = "done"
            /\ req[r].status = req[r].calls[1].outcome.status
            /\ req[r].headWrites = 1
            /\ Len(req[r].calls) = 1)

\* C2 witness: targets [P1, P2] both registered, P1 answered 400, the 400 was relayed
C2_Witness ==
    \E r \in Requests :
        /\ TwoRegisteredTargets
        /\ FirstCallEnded(req[r])
        /\ req[r].calls[1].provider = TheAlias.targets[1]
        /\ req[r].calls[1].outcome = Answered(400)
        /\ req[r].status = 400

\* C3: when every target of the alias was attempted and each attempt ended in a
\* qualifying failure, the caller gets 502 and the details list has one entry per
\* attempted target.
C3_AllFailedIs502 ==
    \A r \in Requests :
        (/\ req[r].phase = "done"
         /\ Len(req[r].calls) >= 1
         /\ Len(req[r].calls) = Len(TheAlias.targets)
         /\ \A i \in 1..Len(req[r].calls) : Qualifying(TheAlias, req[r].calls[i].outcome))
        => (/\ req[r].status = 502
            /\ Len(req[r].details) = Len(req[r].calls))

\* the client named a model (or none) and it is not a configured alias
UnknownAlias(rq) ==
    \/ rq.kind = "nomodel"
    \/ rq.kind = "named" /\ ToLowerCase(rq.model) \notin DOMAIN aliases

UnresolvableAlias(rq) ==
    /\ rq.kind = "named"
    /\ ToLowerCase(rq.model) \in DOMAIN aliases
    /\ \A i \in 1..Len(LookupAlias(ToLowerCase(rq.model)).targets) :
          LookupAlias(ToLowerCase(rq.model)).targets[i] \notin DOMAIN providers

\* C24: a request for a configured alias with no resolvable target is answered
\* with a routing error, status 400 or 404, and no upstream call is made for it.
C24_UnresolvableAliasIsRoutingError ==
    \A r \in Requests :
        UnresolvableAlias(req[r])
        => (/\ req[r].calls = <<>>
            /\ req[r].phase = "done"
            /\ req[r].status \in {400, 404})

\* what proxyWithFallback does for such a request: no upstream call, the aggregate
\* 502 with one "not configured" entry per target
UnresolvableAliasIs502 ==
    \A r \in Requests :
        UnresolvableAlias(req[r])
        => (/\ req[r].calls = <<>>
            /\ req[r].phase = "done"
            /\ req[r].status = 502
            /\ Len(req[r].details) = Len(TheAlias.targets))

\* s is u with some entries left out, the others in u's order
RECURSIVE IsSubSeq(_, _)
IsSubSeq(s, u) ==
    IF s = <<>> THEN TRUE
    ELSE IF u = <<>> THEN FALSE
    ELSE IF Head(s) = Head(u) THEN IsSubSeq(Tail(s), Tail(u))
    ELSE IsSubSeq(s, Tail(u))

\* C25: the target list is the primary followed by the fallbacks in the order of
\* ALIAS_<NAME>_FALLBACK, and a request considers it from the front: the targets
\* skipped so far are targets 1..k in that order, each once, and the target
\* dispatched next is target k+1.
C25_DeclaredOrder ==
    LET t == TheAlias.targets IN
    /\ t[1] = TheAlias.primary
    /\ IsSubSeq(Tail(t), TheAlias.fallback)
    /\ \A i \in 1..Len(TheAlias.fallback) :
          TheAlias.fallback[i] # TheAlias.primary
          => \E j \in 2..Len(t) : t[j] = TheAlias.fallback[i]
    /\ \A r \in Requests :
          LET e == req[r].errors
              c == req[r].calls IN
          /\ Len(e) + Len(c) <= Len(t)
          /\ \A i \in 1..Len(e) : e[i].provider = t[i]
          /\ \A j \in 1..Len(c) : c[j].idx = Len(e) + j /\ c[j].provider = t[c[j].idx]

\* C25 witness: the primary was skipped, then the first fallback was dispatched,
\* and the alias has a further target
C25_Witness ==
    \E r \in Requests :
        /\ Len(TheAlias.targets) = 3
        /\ Len(req[r].errors) = 1
        /\ Len(req[r].calls) = 1
        /\ req[r].calls[1].idx = 2

\* the number of targets a request has considered so far: skipped or dispatched
Considered(rq) == Len(rq.errors) + Len(rq.calls)

\* C26: for every target a request has considered whose provider is not in the
\* provider map: no upstream call was made for it, the error list has one "not
\* configured" entry per such target, and the request went on to the next target
\* (or, after the last target, to the aggregate answer).
C26_UnregisteredSkipped ==
    \A r \in Requests :
        LET t == TheAlias.targets
            e == req[r].errors
            c == req[r].calls
            k == Considered(req[r]) IN
        \A i \in 1..k :
            t[i] \notin DOMAIN providers
            => (/\ \A j \in 1..Len(c) : c[j].idx # i /\ c[j].provider \in DOMAIN providers
                /\ Cardinality({n \in 1..Len(e) :
                       e[n] = [provider |-> t[i], reason |-> "not configured"]})
                   = Cardinality({n \in 1..k : t[n] = t[i]})
                /\ \/ k > i
                   \/ i = Len(t) /\ req[r].phase = "done" /\ req[r].status = 502)

\* C26 witness: of two targets the first is unregistered and was skipped with one
\* error entry, the second is registered and was dispatched
C26_Witness ==
    \E r \in Requests :
        /\ Len(TheAlias.targets) = 2
        /\ TheAlias.targets[1] \notin DOMAIN providers
        /\ req[r].errors = <<[provider |-> TheAlias.targets[1], reason |-> "not configured"]>>
        /\ Len(req[r].calls) = 1
        /\ req[r].calls[1].provider = TheAlias.targets[2]

\* discovery set neither capability flag of the provider
Undiscovered(p) == ~providers[p].openai /\ ~providers[p].anthropic

\* C27: no upstream request is ever dispatched to a registered provider for which
\* neither discovery probe succeeded: a target on such a provider that a request
\* has considered was recorded in the error list and passed over.
C27_UndiscoveredNeverDispatched ==
    \A r \in Requests :
        /\ \A j \in 1..Len(req[r].calls) : ~Undiscovered(req[r].calls[j].provider)
        /\ \A i \in 1..Considered(req[r]) :
              (TheAlias.targets[i] \in DOMAIN providers /\ Undiscovered(TheAlias.targets[i]))
              => \E n \in 1..Len(req[r].errors) :
                    req[r].errors[n].provider = TheAlias.targets[i]

\* what proxyWithFallback does with such a provider: it is dispatched in the
\* OpenAI format
UndiscoveredDispatchedAsOpenAI ==
    \A r \in Requests :
        \A j \in 1..Len(req[r].calls) :
            Undiscovered(req[r].calls[j].provider) => req[r].calls[j].format = "openai"

\* C18: for a streaming request, at every moment every chunk the upstream has
\* emitted so far has been written to the client, whether or not the upstream
\* response has ended (or ever ends).
C18_ChunksForwardedAtOnce ==
    \A r \in Requests :
        req[r].stream => req[r].delivered = req[r].emitted

\* C18 witness: a streaming request got two chunks while the upstream is still open
C18_Witness ==
    \E r \in Requests :
        /\ req[r].stream
        /\ req[r].up = "piping"
        /\ req[r].emitted = MaxChunks
        /\ req[r].delivered = MaxChunks

\* the body of a POST to a chat endpoint was not valid JSON: server.ts answers 400
\* and calls nothing upstream
HandlerMalformedJsonIs400 ==
    \A r \in Requests :
        req[r].kind = "badjson"
        => (req[r].phase = "done" /\ req[r].status = 400 /\ req[r].calls = <<>>
            /\ ServerRunning)

\* C20: an exception raised while a request is handled, in the handler or in an
\* upstream callback, never ends the server process, and a request whose handling
\* threw (body read failed, model not a string) is answered 500.
C20_ExceptionsAre500 ==
    /\ ServerRunning
    /\ \A r \in Requests :
          req[r].kind \in {"too_large", "aborted", "nonstring"}
          => (req[r].phase = "done" /\ req[r].status = 500)

\* the exceptions the handler itself raises are caught and answered 500
HandlerExceptionsAre500 ==
    \A r \in Requests :
        req[r].kind \in {"too_large", "aborted", "nonstring"}
        => (req[r].phase = "done" /\ req[r].status = 500)

\* C21: a request whose body has exceeded MAX_BODY_SIZE (10 MB) has been answered
\* with an error status and no upstream call was ever made for it, whatever
\* follows on the request (more data, its end, an abort).
C21_OversizedBodyRejected ==
    \A r \in Requests :
        req[r].totalSize > MAX_BODY_SIZE
        => (/\ req[r].phase = "done"
            /\ req[r].status >= 400
            /\ req[r].headWrites = 1
            /\ req[r].calls = <<>>)

\* C21 witness: a body of 10 MB + 1 byte was rejected with 500 and the request
\* has since ended
C21_Witness ==
    \E r \in Requests :
        /\ req[r].totalSize = MAX_BODY_SIZE + 1
        /\ req[r].kind = "too_large"
        /\ req[r].status = 500
        /\ req[r].inbound = "ended"

\* a body of exactly MAX_BODY_SIZE is not too large: it can be forwarded
BodyAtLimitForwarded ==
    \E r \in Requests :
        /\ req[r].totalSize = MAX_BODY_SIZE
        /\ Len(req[r].calls) = 1

\* C33: once discovery is over, no request-handling step (health, model list, chat
\* endpoints, fallback iteration, proxying and its upstream events) changes the
\* provider table, a provider's capability flags, or the alias table
C33_TablesReadOnly ==
    [][providers' = providers /\ aliases' = aliases]_vars

\* a request went through fallback iteration and an upstream call that failed
C33_Witness ==
    \E r \in Requests :
        /\ req[r].phase = "done"
        /\ req[r].errors # <<>>
        /\ req[r].calls # <<>>
        /\ req[r].calls[Len(req[r].calls)].outcome = Failed

\* C34: in the membership-checking variant of proxyWithFallback a target whose
\* model is not in its provider's discovered model list is never dispatched; the
\* error "model not available" is recorded for it when iteration comes to it, and
\* iteration goes on with the next target (ending in the aggregate 502 when there
\* is none)
C34_UnlistedModelSkipped ==
    \A r \in Requests :
        req[r].phase # "idle" =>
            LET targets == aliases[AliasName].targets
                reached == IF req[r].calls = <<>> THEN Len(targets) + 1
                           ELSE req[r].calls[1].idx IN
            /\ \A c \in 1..Len(req[r].calls) :
                  req[r].calls[c].model \in providers[req[r].calls[c].provider].models
            /\ Len(req[r].errors) = reached - 1
            /\ \A j \in 1..Len(targets) :
                  (/\ targets[j].provider \in DOMAIN providers
                   /\ targets[j].model \notin providers[targets[j].provider].models)
                  => /\ j # reached
                     /\ (j < reached) =>
                            req[r].errors[j] = ErrorOf(targets[j], "model not available")
            /\ (req[r].calls = <<>>) => (req[r].status = 502)

\* the first target's model is not listed by its provider and the second target
\* was dispatched
C34_Witness ==
    \E r \in Requests :
        LET targets == aliases[AliasName].targets IN
        /\ Len(targets) = 2
        /\ targets[1].provider \in DOMAIN providers
        /\ targets[1].model \notin providers[targets[1].provider].models
        /\ req[r].calls # <<>>
        /\ req[r].calls[1].idx = 2
        /\ req[r].errors = <<ErrorOf(targets[1], "model not available")>>

\* C35: a proxied request gets exactly one response: the response callback, the
\* "error" handler and the "timeout" handler of its upstream call write the
\* response headers once between them, and none of them calls writeHead after a
\* status was sent
C35_OneResponsePerRequest ==
    \A r \in Requests :
        req[r].calls # <<>> =>
            /\ req[r].headWrites <= 1
            /\ ~req[r].uncaught
            /\ (req[r].up # "open") => (req[r].headWrites = 1)

\* what does hold: the first event of the upstream call decides the status the
\* client sees, and as long as no second handler runs the headers were written once
FirstHandlerDecides ==
    \A r \in Requests :
        (req[r].calls # <<>> /\ req[r].up # "open") =>
            LET o == req[r].calls[Len(req[r].calls)].outcome IN
            /\ req[r].headWrites = 1
            /\ o.kind = "response" => req[r].status = o.status
            /\ o.kind = "error" => req[r].status = 502
            /\ o.kind = "timeout" => req[r].status = 504

\* C32: reading a request body is time-bounded: a client that opened a POST to a
\* chat endpoint and never finishes sending its body gets an error outcome (the
\* read is rejected) instead of holding the handler open for ever
C32_StalledReadTimesOut ==
    \A r \in Requests :
        (req[r].inbound = "stalled" /\ req[r].parse = "pending")
        ~> (req[r].parse = "rejected")

\* what does hold: as long as the client goes on, the read is settled
LiveClientSettles ==
    \A r \in Requests :
        (req[r].inbound = "open" /\ req[r].parse = "pending")
        ~> (req[r].parse # "pending" \/ req[r].inbound = "stalled")

(***************************************************************************)
(*               PART II: the SDK's gateway manager (SpecMgr)              *)
(***************************************************************************)

\* ---- program constants ----
DEFAULT_PORT    == 3333    \* gateway-manager.ts
BindTries       == 10      \* gateway index.ts: for (attempt = 0; attempt < 10; ...)

\* ---- bounds of the model ----
MaxCalls        == 4       \* ensureGateway invocations modelled
MaxProcs        == 4       \* subprocess spawns modelled
MaxLiveCalls    == 2       \* ensureGateway invocations followed to their end
PortSpan        == 2       \* ports DEFAULT_PORT .. DEFAULT_PORT + PortSpan are modelled
\* waitForHealth's attempt counts, scaled down: the loop is kept, its length is not
RecheckAttempts == 1       \* stands for the 3 of waitForHealth(gatewayPort, 3, 100)
StartupAttempts == 1       \* stands for the 50 of waitForHealth(port, 50, 100)

Ports == DEFAULT_PORT..(DEFAULT_PORT + PortSpan)

\* createMiniPassy(config): the default instance (no port) and a custom one
Instances == {"default", "custom"}
ConfigPort(i) == IF i = "default" THEN Null ELSE DEFAULT_PORT + 1

\* spawnGateway: const port = config.port || DEFAULT_PORT
RequestedPort(i) == IF ConfigPort(i) # Null THEN ConfigPort(i) ELSE DEFAULT_PORT

\* a subprocess is alive from spawn until it exits or is killed
Alive(p) == proc[p].state \in {"booting", "listening"}
AliveIn(pr, p) == pr[p].state \in {"booting", "listening"}

\* nobody is bound to port q
PortFree(pr, q) ==
    /\ foreign[q] = "free"
    /\ \A p \in 1..Len(pr) : ~(pr[p].state = "listening" /\ pr[p].port = q)

\* gateway index.ts main: bind the requested port, on EADDRINUSE the next one, at
\* most BindTries attempts; Null when all of them are taken
BindPort(pr, q0) ==
    LET free == {q \in q0..(q0 + BindTries - 1) : q \notin Ports \/ PortFree(pr, q)} IN
    IF free = {} THEN Null
    ELSE CHOOSE q \in free : \A q2 \in free : q <= q2

\* port.ts checkHealth: GET /health on 127.0.0.1:port answers {status: "ok"}.
\* A gateway listening there answers ok (server.ts), and so may another program.
Serving(pr, q) ==
    \/ q \in Ports /\ foreign[q] = "healthy"
    \/ \E p \in 1..Len(pr) : pr[p].state = "listening" /\ pr[p].port = q

\* The manager's state as one record, so that the helpers of gateway-manager.ts
\* compose as functions of it.
Mgr == [gp |-> gatewayProcess, port |-> gatewayPort, rp |-> readyPromise,
        call |-> call, proc |-> proc]

\* a lifecycle state is recorded per ensureGateway attempt as its events happen
MarkStopped(calls, c) ==
    IF c = Null THEN calls ELSE [calls EXCEPT ![c].life = "stopped"]

\* ChildProcess.kill(), or the child's own death: the child is gone and its port
\* released; its "exit" event reaches the manager later (it is tracked only while
\* spawnGateway's promise is unsettled: afterwards the handler does nothing).
Kill(calls, pr, p) ==
    IF AliveIn(pr, p)
    THEN [pr EXCEPT ![p].state = "dead", ![p].port = Null, ![p].want = Null,
                    ![p].exitPending = (calls[pr[p].owner].pc = "spawning"
                                        /\ calls[pr[p].owner].p = p)]
    ELSE pr

\* a handle the manager dropped, of a dead child with no event left, is history
Forget(pr, p) ==
    IF pr[p].state = "dead" /\ ~pr[p].exitPending
    THEN [pr EXCEPT ![p].owner = Null]
    ELSE pr

\* gateway-manager.ts cleanup(): only when a handle is held, kill it and reset both
\* the handle and the cached port
Cleanup(m) ==
    IF m.gp # Null
    THEN [m EXCEPT !.proc = Forget(Kill(m.call, m.proc, m.gp), m.gp),
                   !.call = MarkStopped(m.call, m.proc[m.gp].owner),
                   !.gp = Null,
                   !.port = Null]
    ELSE m

\* gateway-manager.ts spawnGateway(config), its synchronous part, run for call c:
\* spawn the child with PORT = requested port, keep its handle in gatewayProcess,
\* and wait for the "running on" line, an error/exit event or the 10 s timer.
SpawnGateway(m, c, i) ==
    LET p == Len(m.proc) + 1 IN
    [m EXCEPT !.proc = Append(m.proc, [state |-> "booting", port |-> Null,
                                       want |-> RequestedPort(i), owner |-> c,
                                       exitPending |-> FALSE]),
              !.gp = p,
              !.call = [m.call EXCEPT ![c].pc = "spawning",
                                       ![c].p = p,
                                       ![c].inst = "",
                                       ![c].port = RequestedPort(i),
                                       ![c].attempts = 0,
                                       ![c].resp = "none"]]

\* gateway-manager.ts ensureGateway(config), up to its first await, as a new call:
\* with a cached port, re-check its health first; otherwise spawn.
EnsureGateway(m, i) ==
    LET c == Len(m.call) + 1
        fresh == [pc |-> "check", inst |-> i, p |-> Null, port |-> m.port,
                  attempts |-> RecheckAttempts, resp |-> "none", life |-> "starting"]
        m1 == [m EXCEPT !.call = Append(m.call, fresh)] IN
    IF m.port # Null THEN m1 ELSE SpawnGateway(m1, c, i)

\* an ensureGateway that settled keeps only its outcome
Settled(cr, pc) ==
    [cr EXCEPT !.pc = pc, !.inst = "", !.p = Null, !.port = Null,
               !.attempts = 0, !.resp = "none",
               !.life = IF cr.life = "stopped" /\ pc = "rejected" THEN "stopped"
                        ELSE IF pc = "resolved" THEN "ready" ELSE "crashed"]

\* the manager's variables take the values of the record
Becomes(m) ==
    /\ gatewayProcess' = m.gp
    /\ gatewayPort' = m.port
    /\ readyPromise' = m.rp
    /\ call' = m.call
    /\ proc' = m.proc

\* ---- the SDK's operations ----

\* a ready() that ignores the memoized promise and the cached port (used as a mutant)
AfterReadyAlwaysSpawns(m, i) ==
    LET c == Len(m.call) + 1
        fresh == [pc |-> "check", inst |-> "", p |-> Null, port |-> Null,
                  attempts |-> 0, resp |-> "none", life |-> "starting"]
        m1 == SpawnGateway([m EXCEPT !.call = Append(m.call, fresh)], c, i) IN
    [m1 EXCEPT !.rp = c]

\* createMiniPassy(config).ready(): if (!readyPromise) readyPromise =
\* ensureGateway(config); return readyPromise. The returned promise is .rp.
AfterReady(m, i) ==
    IF m.rp = Null
    THEN LET m1 == EnsureGateway(m, i) IN [m1 EXCEPT !.rp = Len(m1.call)]
    ELSE m

\* a stop() that cleans up and keeps the memoized promise (used as a mutant)
AfterStopKeepingPromise(m) == Cleanup(m)

\* createMiniPassy(config).stop(): cleanup(); readyPromise = null
AfterStop(m) == [Cleanup(m) EXCEPT !.rp = Null]

\* an application calls ready() on one of its instances
Ready(i) ==
    /\ Len(call) < MaxCalls /\ Len(proc) < MaxProcs
    /\ Becomes(AfterReady(Mgr, i))
    /\ UNCHANGED foreign
    /\ UNCHANGED <<gwVars, bootVars, rtVars, clVars>>

\* an application calls stop() on one of its instances
Stop(i) ==
    /\ Becomes(AfterStop(Mgr))
    /\ UNCHANGED foreign
    /\ UNCHANGED <<gwVars, bootVars, rtVars, clVars>>

\* createMiniPassy(config).url: throws unless a port is cached
UrlThrows == gatewayPort = Null

\* ---- the subprocess and the events it sends to spawnGateway's handlers ----

\* the gateway child binds a port and prints "running on http://127.0.0.1:<port>";
\* the stdout handler resolves the spawn promise with that port unless it is
\* already settled, and ensureGateway goes on to waitForHealth(port, 50, 100).
ProcListens(p) ==
    /\ proc[p].state = "booting"
    /\ LET q == BindPort(proc, proc[p].want)
           c == proc[p].owner IN
       /\ q \in Ports
       /\ proc' = [proc EXCEPT ![p].state = "listening", ![p].port = q, ![p].want = Null]
       /\ call' = IF call[c].pc = "spawning" /\ call[c].p = p
                  THEN [call EXCEPT ![c].pc = "polling", ![c].port = q,
                                    ![c].attempts = StartupAttempts]
                  ELSE call
    /\ UNCHANGED <<gatewayProcess, gatewayPort, readyPromise, foreign>>
    /\ UNCHANGED <<gwVars, bootVars, rtVars, clVars>>

\* the child exits by itself: it crashed, or boot found every port taken (exit 1)
ProcExits(p) ==
    /\ Alive(p)
    /\ proc' = IF gatewayProcess = p THEN Kill(call, proc, p)
                ELSE Forget(Kill(call, proc, p), p)
    /\ UNCHANGED <<gatewayProcess, gatewayPort, readyPromise, call, foreign>>
    /\ UNCHANGED <<gwVars, bootVars, rtVars, clVars>>

\* spawnGateway's "exit" (or "error") handler: reject unless already settled
ExitEvent(p) ==
    /\ proc[p].state = "dead" /\ proc[p].exitPending
    /\ LET c == proc[p].owner IN
       /\ proc' = IF gatewayProcess = p THEN [proc EXCEPT ![p].exitPending = FALSE]
                   ELSE Forget([proc EXCEPT ![p].exitPending = FALSE], p)
       /\ call' = IF call[c].pc = "spawning" /\ call[c].p = p
                  THEN [call EXCEPT ![c] = Settled(call[c], "rejected")]
                  ELSE call
    /\ UNCHANGED <<gatewayProcess, gatewayPort, readyPromise, foreign>>
    /\ UNCHANGED <<gwVars, bootVars, rtVars, clVars>>

\* a spawnGateway without its setTimeout (used as a mutant)
StartupTimerMissing(c) ==
    /\ FALSE
    /\ UNCHANGED vars

\* spawnGateway's 10 s timer: resolve with actualPort, still the requested port
StartupTimer(c) ==
    /\ call[c].pc = "spawning"
    /\ call' = [call EXCEPT ![c].pc = "polling", ![c].attempts = StartupAttempts]
    /\ UNCHANGED <<gatewayProcess, gatewayPort, readyPromise, proc, foreign>>
    /\ UNCHANGED <<gwVars, bootVars, rtVars, clVars>>

\* ---- waitForHealth ----

\* port.ts checkHealth: the GET is answered (or not) by whatever serves the port now
HealthProbe(c) ==
    /\ call[c].pc \in {"check", "polling"}
    /\ call[c].resp = "none"
    /\ call' = [call EXCEPT ![c].resp = IF Serving(proc, call[c].port) THEN "ok" ELSE "bad"]
    /\ UNCHANGED <<gatewayProcess, gatewayPort, readyPromise, proc, foreign>>
    /\ UNCHANGED <<gwVars, bootVars, rtVars, clVars>>

\* ensureGateway after waitForHealth returned true: the startup caches the port,
\* the re-check just returns
HealthyContinuation(m, c) ==
    [m EXCEPT !.port = IF m.call[c].pc = "polling" THEN m.call[c].port ELSE m.port,
              !.call = [m.call EXCEPT ![c] = Settled(m.call[c], "resolved")]]

\* ensureGateway after waitForHealth returned false: the startup throws, the
\* re-check cleans up and spawns again
UnhealthyContinuation(m, c) ==
    IF m.call[c].pc = "polling"
    THEN [m EXCEPT !.call = [m.call EXCEPT ![c] = Settled(m.call[c], "rejected")]]
    ELSE SpawnGateway(Cleanup(m), c, m.call[c].inst)

\* the answer of one checkHealth reaches waitForHealth: healthy returns true, an
\* unhealthy last attempt returns false, otherwise the next attempt follows
HealthAnswer(c) ==
    /\ call[c].pc \in {"check", "polling"}
    /\ call[c].resp # "none"
    /\ IF call[c].resp = "ok"
       THEN Becomes(HealthyContinuation(Mgr, c))
       ELSE IF call[c].attempts > 1
            THEN /\ call' = [call EXCEPT ![c].resp = "none",
                                         ![c].attempts = call[c].attempts - 1]
                 /\ UNCHANGED <<gatewayProcess, gatewayPort, readyPromise, proc>>
            ELSE /\ call[c].pc = "check" => Len(proc) < MaxProcs
                 /\ Becomes(UnhealthyContinuation(Mgr, c))
    /\ UNCHANGED foreign
    /\ UNCHANGED <<gwVars, bootVars, rtVars, clVars>>

\* what the other programs on this machine do with the modelled ports
ForeignStates == {"free", "busy", "healthy"}

InitMgr ==
    /\ MgrInit
    /\ \E f \in ForeignStates :
          foreign = [q \in Ports |-> IF q = DEFAULT_PORT THEN f ELSE "free"]
    /\ NoGateway
    /\ NoBoot
    /\ NoRouter
    /\ NoClient

NextMgr ==
    \/ \E i \in Instances : Ready(i)
    \/ \E i \in Instances : Stop(i)
    \/ \E p \in 1..Len(proc) : ProcListens(p)
    \/ \E p \in 1..Len(proc) : ProcExits(p)
    \/ \E p \in 1..Len(proc) : ExitEvent(p)
    \/ \E c \in 1..Len(call) : StartupTimer(c)
    \/ \E c \in 1..Len(call) : HealthProbe(c)
    \/ \E c \in 1..Len(call) : HealthAnswer(c)

SpecMgr == InitMgr /\ [][NextMgr]_vars

\* ---- the manager with its timers running (SpecMgrLive) ----

\* ready() as in SpecMgr, for the first MaxLiveCalls ensureGateway invocations
ReadyLive(i) ==
    /\ Len(call) < MaxLiveCalls
    /\ Ready(i)

\* the steps of ensureGateway call c that a timer drives: spawnGateway's
\* setTimeout(10000), checkHealth's answer or its req.setTimeout(500), and
\* waitForHealth's setTimeout(intervalMs) before the next attempt
Timed(c) ==
    /\ c \in 1..Len(call)
    /\ \/ StartupTimer(c)
       \/ HealthProbe(c)
       \/ HealthAnswer(c)

NextMgrLive ==
    \/ \E i \in Instances : ReadyLive(i)
    \/ \E i \in Instances : Stop(i)
    \/ \E p \in 1..Len(proc) : ProcListens(p)
    \/ \E p \in 1..Len(proc) : ProcExits(p)
    \/ \E p \in 1..Len(proc) : ExitEvent(p)
    \/ \E c \in 1..Len(call) : StartupTimer(c)
    \/ \E c \in 1..Len(call) : HealthProbe(c)
    \/ \E c \in 1..Len(call) : HealthAnswer(c)

\* Node's event loop runs every timer that is due: a timed step that stays enabled
\* is taken. Nothing is assumed of the subprocess or of the application.
SpecMgrLive ==
    /\ InitMgr
    /\ [][NextMgrLive]_vars
    /\ \A c \in 1..MaxLiveCalls : WF_vars(Timed(c))

(***************************************************************************)
(*             Claims about the gateway manager (under SpecMgr)            *)
(***************************************************************************)

PendingPcs == {"check", "spawning", "polling"}

\* the promise ready() would return now has already resolved
ReadyResolved == readyPromise # Null /\ call[readyPromise].pc = "resolved"

\* C5: when a ready() made after a stop() resolves, it has spawned a subprocess of
\* its own and, that subprocess being alive, the cached port behind url is the port
\* that subprocess listens on. (Every ensureGateway call but the first follows a
\* stop(): only stop() clears the memoized promise.)
C5_ReadyAfterStopIsFresh ==
    [][\A c \in 2..Len(call) :
          (call[c].pc \in PendingPcs /\ call'[c].pc = "resolved")
          => (/\ call[c].p # Null
              /\ Alive(call[c].p)
                 => (/\ proc[call[c].p].state = "listening"
                     /\ gatewayPort' = proc[call[c].p].port))]_vars

\* C6: once ready() has resolved and the subprocess it holds is healthy on the
\* cached port, a further ready() on any instance changes nothing: no spawn, the
\* same port, and the promise it returns is the resolved one.
C6_ReadyIdempotent ==
    (/\ ReadyResolved
     /\ gatewayProcess # Null
     /\ proc[gatewayProcess].state = "listening"
     /\ proc[gatewayProcess].port = gatewayPort)
    => \A i \in Instances :
          LET m == AfterReady(Mgr, i) IN
          /\ m.proc = proc
          /\ m.gp = gatewayProcess
          /\ m.port = gatewayPort
          /\ m.call[m.rp].pc = "resolved"

\* C6 witness: ready() resolved, the subprocess is listening on the cached port
C6_Witness ==
    /\ ReadyResolved
    /\ gatewayProcess # Null
    /\ proc[gatewayProcess].state = "listening"
    /\ proc[gatewayProcess].port = gatewayPort

\* C7: when the subprocess has died after ready() resolved, the next ready() (no
\* stop() in between) spawns a replacement, and the promise it returns is not
\* resolved before that replacement reports healthy.
C7_ReadyRespawnsDead ==
    (/\ ReadyResolved
     /\ gatewayProcess # Null
     /\ proc[gatewayProcess].state = "dead")
    => \A i \in Instances :
          LET m == AfterReady(Mgr, i) IN
          /\ Len(m.proc) = Len(proc) + 1
          /\ m.call[m.rp].pc # "resolved"

\* C8: at most one subprocess spawned by the manager is alive
C8_AtMostOneAlive ==
    Cardinality({p \in 1..Len(proc) : Alive(p)}) <= 1

\* C9: url throws whenever the manager is not ready, that is unless the promise
\* ready() currently memoizes has resolved: before the first ready() resolves, and
\* from a stop() until a later ready() resolves.
C9_UrlThrowsUnlessReady ==
    ~ReadyResolved => UrlThrows

\* C10: per attempt the lifecycle only moves forward: never from ready or crashed
\* back to starting, from crashed to ready, or from stopped to anything else.
LifeForward(a, b) ==
    /\ a \in {"ready", "crashed"} => b # "starting"
    /\ a = "crashed" => b # "ready"
    /\ a = "stopped" => b = "stopped"

C10_LifecycleMonotonic ==
    [][\A c \in 1..Len(call) : LifeForward(call[c].life, call'[c].life)]_vars

\* the health poll of startup c gets the answer ok in this step
PollAnsweredOk(c) ==
    /\ call[c].pc = "polling" /\ call[c].resp = "none"
    /\ call'[c].pc = "polling" /\ call'[c].resp = "ok"

\* the exit (or spawn error) of subprocess p reaches spawnGateway's handler in this
\* step while the promise of p's spawnGateway is pending
ExitReachesPendingSpawn(p) ==
    /\ proc[p].exitPending /\ ~proc'[p].exitPending
    /\ call[proc[p].owner].pc = "spawning" /\ call[proc[p].owner].p = p

\* C22: a failed start is never taken for a successful one: a spawn error or an
\* exit that reaches spawnGateway while its promise is pending rejects the
\* startup, a health poll that gave up rejects it, and the health poll of a
\* startup whose subprocess has exited is never answered ok (so that ready()
\* cannot resolve on it).
C22_FailedStartRejects ==
    [][/\ \A p \in 1..Len(proc) :
             ExitReachesPendingSpawn(p) => call'[proc[p].owner].pc = "rejected"
       /\ \A c \in 1..Len(call) :
             (/\ call[c].pc = "polling" /\ call[c].resp = "bad" /\ call[c].attempts <= 1
              /\ call'[c].pc # "polling")
             => call'[c].pc = "rejected"
       /\ \A c \in 1..Len(call) :
             PollAnsweredOk(c) => Alive(call[c].p)]_vars

\* spawn errors and early exits reject, and so does a health poll that gave up
StartFailuresReject ==
    [][/\ \A p \in 1..Len(proc) :
             ExitReachesPendingSpawn(p) => call'[proc[p].owner].pc = "rejected"
       /\ \A c \in 1..Len(call) :
             (/\ call[c].pc = "polling" /\ call[c].resp = "bad" /\ call[c].attempts <= 1
              /\ call'[c].pc # "polling")
             => call'[c].pc = "rejected"]_vars

\* the ways the embedding process can terminate: process.exit() or an empty event
\* loop ("exit"), an uncaught exception (Node emits "exit" before it ends), SIGINT,
\* SIGTERM, and terminations that run no JavaScript: SIGHUP (no listener is
\* registered, the default action ends the process), SIGKILL
TerminationKinds == {"exit", "uncaughtException", "SIGINT", "SIGTERM", "SIGHUP", "SIGKILL"}

\* gateway-manager.ts: process.on("exit", cleanup), process.on("SIGINT", ...),
\* process.on("SIGTERM", ...) are the only hooks
HookRuns(how) == how \in {"exit", "uncaughtException", "SIGINT", "SIGTERM"}

\* the manager's state when the embedding process has terminated
AfterTermination(m, how) == IF HookRuns(how) THEN Cleanup(m) ELSE m

\* C23: however the embedding process terminates, and whenever, no gateway
\* subprocess spawned by the manager is alive afterwards.
C23_NoOrphanOnExit ==
    \A how \in TerminationKinds :
        LET m == AfterTermination(Mgr, how) IN
        \A p \in 1..Len(m.proc) : ~AliveIn(m.proc, p)

\* on the terminations that run a hook, the subprocess whose handle the manager
\* holds is killed and the handle cleared
HookKillsHeldProcess ==
    \A how \in {k \in TerminationKinds : HookRuns(k)} :
        LET m == AfterTermination(Mgr, how) IN
        /\ m.gp = Null
        /\ gatewayProcess # Null => ~AliveIn(m.proc, gatewayProcess)

\* C31: every ensureGateway call (the promise a ready() returns) eventually
\* resolves or rejects, whatever the subprocess does: stays silent, never
\* listens, hangs, exits.
C31_ReadySettles ==
    \A c \in 1..MaxLiveCalls :
        (c <= Len(call) /\ call[c].pc \in PendingPcs)
        ~> (c <= Len(call) /\ call[c].pc \in {"resolved", "rejected"})

\* C31 witness: the subprocess neither printed its port nor exited, and the
\* ready() that spawned it has rejected
C31_Witness ==
    /\ Len(call) >= 1 /\ Len(proc) >= 1
    /\ call[1].pc = "rejected"
    /\ proc[1].state = "booting"
    /\ proc[1].owner = 1

\* C36: whenever an ensureGateway call (a ready() promise) has rejected, no
\* subprocess that call spawned is running: its handle was killed, also when the
\* rejection is the health poll giving up on a subprocess that is still alive
C36_RejectedLeavesNoSubprocess ==
    \A c \in 1..Len(call) :
        call[c].pc = "rejected" =>
            \A p \in 1..Len(proc) : proc[p].owner = c => ~Alive(p)

\* C37: the port ready() caches for url when it resolves (the polled port of a
\* startup whose health poll was answered ok) is a port bound by the subprocess
\* that startup spawned: the poll is never answered ok while that subprocess has
\* bound no port yet (the startup timer fired before any "running on" line), nor
\* while it listens on another port than the polled one
C37_AdoptsOwnPort ==
    \A c \in 1..Len(call) :
        (call[c].pc = "polling" /\ call[c].resp = "ok") =>
            /\ call[c].p # Null
            /\ proc[call[c].p].state # "booting"
            /\ proc[call[c].p].state = "listening"
                  => proc[call[c].p].port = call[c].port

\* what does hold: a startup that saw the "running on" line before its timer
\* polls the port its subprocess bound
AnnouncedPortIsPolled ==
    [][\A p \in 1..Len(proc) :
          (/\ proc[p].state = "booting" /\ proc'[p].state = "listening"
           /\ call[proc[p].owner].pc = "spawning" /\ call[proc[p].owner].p = p)
          => (/\ call'[proc[p].owner].pc = "polling"
              /\ call'[proc[p].owner].port = proc'[p].port)]_vars

\* the promise ready() would return now has already rejected
ReadyRejected == readyPromise # Null /\ call[readyPromise].pc = "rejected"

\* C38: once the memoized ready() promise has rejected, a further ready() on any
\* instance returns that same rejected promise and changes nothing (no new
\* ensureGateway, no spawn); after a stop() the promise is cleared and the next
\* ready() runs a new ensureGateway that spawns a subprocess at once
C38_RejectionMemoized ==
    ReadyRejected =>
        \A i \in Instances :
            /\ AfterReady(Mgr, i) = Mgr
            /\ AfterStop(Mgr).rp = Null
            /\ LET m == AfterReady(AfterStop(Mgr), i) IN
               /\ m.rp = Len(call) + 1
               /\ m.call[m.rp].pc = "spawning"
               /\ Len(m.proc) = Len(proc) + 1
               /\ m.gp = Len(m.proc)
               /\ m.proc[m.gp].state = "booting"

\* C38 witness: the promise of a ready() made after a stop() is memoized and has
\* rejected, with the subprocess it spawned still held
C38_Witness ==
    /\ ReadyRejected
    /\ readyPromise >= 2
    /\ gatewayProcess # Null

(***************************************************************************)
(*                 PART III: the gateway's boot (SpecBoot)                 *)
(***************************************************************************)

\* ---- bounds of the model ----
MaxOccupied   == 10    \* longest run of occupied ports from the requested one
MaxServed     == 1     \* requests counted once the server listens

\* the PROVIDER_<ID>_... ids in process.env, in Object.entries order
EnvOrder      == <<"A", "B">>
EnvIds        == {EnvOrder[i] : i \in 1..Len(EnvOrder)}
\* a variable is unset, set to the empty string, or set to a value
EnvValues     == {"unset", "empty", "set"}
\* what a GET <url>/v1/models probe comes back with: a timeout, error or non-2xx
\* status; a 2xx without models; a 2xx with models
ProbeResults  == {"fail", "ok_empty", "ok_models"}
\* the model ids a provider lists to each kind of probe (one id in common)
OpenAIModels    == {"m1"}
AnthropicModels == {"m1", "m2"}
\* listen() faults other than EADDRINUSE
OtherFaults   == {"EACCES"}

\* JavaScript truthiness of process.env[name]
Truthy(v) == v = "set"

\* Map.prototype.set: a new key goes last, an existing key keeps its position
MapSet(m, k, v) ==
    [map   |-> [x \in (DOMAIN m.map) \cup {k} |-> IF x = k THEN v ELSE m.map[x]],
     order |-> IF k \in DOMAIN m.map THEN m.order ELSE Append(m.order, k)]

\* env.ts loadEnv, the provider loop from entry i on: PROVIDER_<ID>_URL with a
\* non-empty value registers toLowerCase(ID) if PROVIDER_<ID>_KEY is non-empty too.
\* (probed and failed are history: the probes discovery has made of the provider
\* since this loadEnv, and those of them that failed.)
RECURSIVE LoadProviders(_, _, _)
LoadProviders(e, i, acc) ==
    IF i > Len(EnvOrder) THEN acc
    ELSE LET id == EnvOrder[i] IN
         IF Truthy(e[id].url) /\ Truthy(e[id].key)
         THEN LoadProviders(e, i + 1,
                  MapSet(acc, ToLowerCase(id),
                         [name |-> ToLowerCase(id), from |-> id,
                          openai |-> FALSE, anthropic |-> FALSE, models |-> {},
                          probed |-> {}, failed |-> {}]))
         ELSE LoadProviders(e, i + 1, acc)

\* a provider loop that does not look at the key
RECURSIVE LoadProvidersUrlOnly(_, _, _)
LoadProvidersUrlOnly(e, i, acc) ==
    IF i > Len(EnvOrder) THEN acc
    ELSE LET id == EnvOrder[i] IN
         IF Truthy(e[id].url)
         THEN LoadProvidersUrlOnly(e, i + 1,
                  MapSet(acc, ToLowerCase(id),
                         [name |-> ToLowerCase(id), from |-> id,
                          openai |-> FALSE, anthropic |-> FALSE, models |-> {},
                          probed |-> {}, failed |-> {}]))
         ELSE LoadProvidersUrlOnly(e, i + 1, acc)

\* a loadEnv that does not look at the key (used as a mutant)
LoadEnvUrlOnly(e) == LoadProvidersUrlOnly(e, 1, [map |-> <<>>, order |-> <<>>])

\* env.ts loadEnv: the provider map (with its iteration order)
LoadEnv(e) == LoadProviders(e, 1, [map |-> <<>>, order |-> <<>>])

\* index.ts: const port = parseInt(process.env.PORT || "3333", 10)
EnvPort == DEFAULT_PORT

\* the ports main() may try
BootPorts == EnvPort..(EnvPort + BindTries - 1)

\* the process before main() runs
BootStart ==
    [pc |-> "startServer", currentPort |-> EnvPort, attempt |-> 0,
     provs |-> <<>>, order |-> <<>>, di |-> 0, probe |-> "",
     bound |-> Null, logged |-> Null, tried |-> <<>>, exitCode |-> Null,
     served |-> 0, loads |-> 0, probes |-> <<>>]

\* a startServer that listens before discovery has run (used as a mutant)
StartServerNoBarrier(b, e) ==
    LET l == LoadProviders(e, 1, [map |-> <<>>, order |-> <<>>]) IN
    [b EXCEPT !.provs = l.map, !.order = l.order,
              !.loads = b.loads + 1,
              !.di = IF l.order = <<>> THEN 0 ELSE 1,
              !.probe = IF l.order = <<>> THEN "" ELSE "openai",
              !.pc = IF l.order = <<>> THEN "listen" ELSE "discover",
              !.bound = IF l.order # <<>> /\ occupied[b.currentPort] = "free"
                        THEN b.currentPort ELSE b.bound]

\* server.ts startServer(port), first statement: const env = loadEnv(); then
\* await discoverProviders(env.providers). (loads counts the loadEnv calls of
\* this process.)
StartServer(b, e) ==
    LET l == LoadEnv(e) IN
    [b EXCEPT !.provs = l.map, !.order = l.order,
              !.loads = b.loads + 1,
              !.di = IF l.order = <<>> THEN 0 ELSE 1,
              !.probe = IF l.order = <<>> THEN "" ELSE "openai",
              !.pc = IF l.order = <<>> THEN "listen" ELSE "discover"]

\* discovery.ts discoverProviders: the loop goes on to the next provider, and
\* returns after the last one (startServer then creates the server and listens)
NextProvider(b) ==
    IF b.di < Len(b.order)
    THEN [b EXCEPT !.di = b.di + 1, !.probe = "openai"]
    ELSE [b EXCEPT !.di = 0, !.probe = "", !.pc = "listen"]

\* the probes of provider n made since the process started, one more (history)
CountProbe(b, n) ==
    [x \in (DOMAIN b.probes) \cup {n} |->
        IF x = n THEN (IF n \in DOMAIN b.probes THEN b.probes[n] ELSE 0) + 1
        ELSE b.probes[x]]

\* a bearer-token probe whose failure escapes discoverProviders (used as a mutant)
OpenAIProbeAborting(b, result) ==
    LET n == b.order[b.di]
        pr == IF result = "fail"
              THEN [b.provs[n] EXCEPT !.probed = @ \cup {"openai"},
                                      !.failed = @ \cup {"openai"}]
              ELSE [b.provs[n] EXCEPT !.openai = TRUE,
                        !.probed = @ \cup {"openai"},
                        !.models = IF result = "ok_models" THEN OpenAIModels ELSE {}]
        b1 == [b EXCEPT !.provs[n] = pr, !.probes = CountProbe(b, n)] IN
    IF result = "fail" THEN [b1 EXCEPT !.pc = "threw", !.exitCode = 1]
    ELSE IF ~pr.openai \/ pr.models = {}
    THEN [b1 EXCEPT !.probe = "anthropic"]
    ELSE NextProvider(b1)

\* discovery.ts discoverProviders, the bearer-token probe of the current provider
\* came back: a 2xx sets the openai flag and replaces the model list, anything
\* else (timeout, error, non-2xx, a body that is not JSON) is logged; the api-key
\* probe follows only if (!provider.openai || provider.models.length === 0)
OpenAIProbe(b, result) ==
    LET n == b.order[b.di]
        pr == IF result = "fail"
              THEN [b.provs[n] EXCEPT !.probed = @ \cup {"openai"},
                                      !.failed = @ \cup {"openai"}]
              ELSE [b.provs[n] EXCEPT !.openai = TRUE,
                        !.probed = @ \cup {"openai"},
                        !.models = IF result = "ok_models" THEN OpenAIModels ELSE {}]
        b1 == [b EXCEPT !.provs[n] = pr, !.probes = CountProbe(b, n)] IN
    IF ~pr.openai \/ pr.models = {}
    THEN [b1 EXCEPT !.probe = "anthropic"]
    ELSE NextProvider(b1)

\* discovery.ts discoverProviders, the api-key probe came back: a 2xx sets the
\* anthropic flag and merges the model ids without duplicates
AnthropicProbe(b, result) ==
    LET n == b.order[b.di]
        pr == IF result = "fail"
              THEN [b.provs[n] EXCEPT !.probed = @ \cup {"anthropic"},
                                      !.failed = @ \cup {"anthropic"}]
              ELSE [b.provs[n] EXCEPT !.anthropic = TRUE,
                        !.probed = @ \cup {"anthropic"},
                        !.models = IF result = "ok_models"
                                   THEN b.provs[n].models \cup AnthropicModels
                                   ELSE b.provs[n].models] IN
    NextProvider([b EXCEPT !.provs[n] = pr])

\* server.ts startServer: server.listen(port, "127.0.0.1") fails with EADDRINUSE
\* when somebody holds the port
InUse(q) == occupied[q] # "free"

\* index.ts main(), one turn of the loop after startServer settled. A fault other
\* than EADDRINUSE is rethrown out of main(). EADDRINUSE increments currentPort
\* and the loop goes on, or after the tenth attempt prints "all ports occupied"
\* and calls process.exit(1). Otherwise the server listens: startServer prints
\* "running on http://127.0.0.1:<actualPort>" and resolves with that port.
ListenStep(b, fault, step) ==
    LET q  == b.currentPort
        b1 == [b EXCEPT !.tried = Append(b.tried, [port |-> q,
                           fault |-> IF fault # "" THEN fault
                                     ELSE IF InUse(q) THEN "EADDRINUSE" ELSE ""])] IN
    IF fault # "" THEN [b1 EXCEPT !.pc = "threw", !.exitCode = 1]
    ELSE IF InUse(q)
         THEN IF b.attempt + 1 < BindTries
              THEN [b1 EXCEPT !.currentPort = q + step, !.attempt = b.attempt + 1,
                              !.pc = "startServer",
                              !.provs = <<>>, !.order = <<>>]
              ELSE [b1 EXCEPT !.currentPort = q + step, !.attempt = b.attempt + 1,
                              !.pc = "exited", !.exitCode = 1,
                              !.provs = <<>>, !.order = <<>>]
         ELSE [b1 EXCEPT !.pc = "running", !.bound = q, !.logged = q]

\* a loop that skips a port after EADDRINUSE (used as a mutant)
MainLoopSkipping(b, fault) == ListenStep(b, fault, 2)

\* a loop that gives up with exit code 0 (used as a mutant)
MainLoopExitsZero(b, fault) ==
    LET r == ListenStep(b, fault, 1) IN
    IF r.pc = "exited" THEN [r EXCEPT !.exitCode = 0] ELSE r

\* index.ts main(): currentPort++
MainLoop(b, fault) == ListenStep(b, fault, 1)

\* ---- the manager that spawned this gateway (gateway-manager.ts) ----

\* spawnGateway's promise is pending, ensureGateway has cached no port
WatcherStart == [spawned |-> Null, seen |-> FALSE, url |-> Null, settled |-> "pending"]

\* port.ts checkHealth(port): {status: "ok"} from this gateway once it listens on
\* the port, or from another program that answers /health there
Healthy(b, q) ==
    \/ b.bound = q /\ b.pc = "running"
    \/ q \in BootPorts /\ occupied[q] = "healthy"

\* ---- actions of the boot ----

\* main() calls startServer(currentPort), which loads the environment
BootLoadEnv ==
    /\ boot.pc = "startServer"
    /\ boot' = StartServer(boot, environ)
    /\ UNCHANGED <<environ, occupied, watcher>>
    /\ UNCHANGED <<gwVars, mgrVars, rtVars, clVars>>

\* one discovery probe of the current provider comes back
BootProbe ==
    /\ boot.pc = "discover"
    /\ \E result \in ProbeResults :
          boot' = IF boot.probe = "openai" THEN OpenAIProbe(boot, result)
                  ELSE AnthropicProbe(boot, result)
    /\ UNCHANGED <<environ, occupied, watcher>>
    /\ UNCHANGED <<gwVars, mgrVars, rtVars, clVars>>

\* server.listen() succeeds or fails, and main() reacts
BootListen ==
    /\ boot.pc = "listen"
    /\ \E fault \in {""} \cup OtherFaults : boot' = MainLoop(boot, fault)
    /\ UNCHANGED <<environ, occupied, watcher>>
    /\ UNCHANGED <<gwVars, mgrVars, rtVars, clVars>>

\* a client's request is accepted by the listening server (GET /health: status ok)
BootServe ==
    /\ boot.bound # Null
    /\ boot.served < MaxServed
    /\ boot' = [boot EXCEPT !.served = boot.served + 1]
    /\ UNCHANGED <<environ, occupied, watcher>>
    /\ UNCHANGED <<gwVars, mgrVars, rtVars, clVars>>

\* spawnGateway's stdout handler gets the "running on" line: resolve(actualPort)
\* with the parsed port unless the promise is settled
StdoutData ==
    /\ boot.logged # Null /\ ~watcher.seen
    /\ watcher' = [watcher EXCEPT !.seen = TRUE,
                       !.spawned = IF watcher.spawned = Null /\ watcher.settled = "pending"
                                   THEN boot.logged ELSE watcher.spawned]
    /\ UNCHANGED <<environ, occupied, boot>>
    /\ UNCHANGED <<gwVars, mgrVars, rtVars, clVars>>

\* spawnGateway's 10 s timer: resolve(actualPort), still the requested port
SpawnTimeout ==
    /\ watcher.spawned = Null /\ watcher.settled = "pending"
    /\ watcher' = [watcher EXCEPT !.spawned = EnvPort]
    /\ UNCHANGED <<environ, occupied, boot>>
    /\ UNCHANGED <<gwVars, mgrVars, rtVars, clVars>>

\* spawnGateway's exit handler: the child is gone before the promise settled
ChildExit ==
    /\ boot.pc \in {"exited", "threw"}
    /\ watcher.spawned = Null /\ watcher.settled = "pending"
    /\ watcher' = [watcher EXCEPT !.settled = "rejected"]
    /\ UNCHANGED <<environ, occupied, boot>>
    /\ UNCHANGED <<gwVars, mgrVars, rtVars, clVars>>

\* ensureGateway: waitForHealth(port, 50, 100) returns; healthy caches the port
\* (gatewayPort = port, what url is built from), unhealthy throws
WaitForHealth ==
    /\ watcher.spawned # Null /\ watcher.settled = "pending"
    /\ watcher' = IF Healthy(boot, watcher.spawned)
                  THEN [watcher EXCEPT !.settled = "resolved", !.url = watcher.spawned]
                  ELSE [watcher EXCEPT !.settled = "rejected"]
    /\ UNCHANGED <<environ, occupied, boot>>
    /\ UNCHANGED <<gwVars, mgrVars, rtVars, clVars>>

\* the machine before the gateway starts: some environment, and a run of occupied
\* ports from the requested one on (the first of them may answer /health)
InitBoot ==
    /\ environ \in [EnvIds -> [url : EnvValues, key : EnvValues]]
    /\ \E k \in 0..MaxOccupied, h \in {"busy", "healthy"} :
          occupied = [q \in EnvPort..(EnvPort + MaxOccupied) |->
                         IF q >= EnvPort + k THEN "free"
                         ELSE IF q = EnvPort THEN h ELSE "busy"]
    /\ boot = BootStart
    /\ watcher = WatcherStart
    /\ NoGateway
    /\ MgrInit
    /\ foreign = <<>>
    /\ NoRouter
    /\ NoClient

NextBoot ==
    \/ BootLoadEnv
    \/ BootProbe
    \/ BootListen
    \/ BootServe
    \/ StdoutData
    \/ SpawnTimeout
    \/ ChildExit
    \/ WaitForHealth

SpecBoot == InitBoot /\ [][NextBoot]_vars

(***************************************************************************)
(*              Claims about the gateway's boot (under SpecBoot)           *)
(***************************************************************************)

\* the number of occupied ports from the requested one on
OccupiedRun == Cardinality({q \in BootPorts : InUse(q)})

\* C11: with ports p..p+k-1 occupied (k < 10) and p+k free, the port the gateway
\* binds is p+k, the "running on" line names p+k, and once the gateway listens and
\* the manager that spawned it is ready, the port behind the manager's url is p+k.
C11_ReportsBoundPort ==
    (OccupiedRun < BindTries /\ boot.bound # Null)
    => (/\ boot.bound = EnvPort + OccupiedRun
        /\ boot.logged = boot.bound
        /\ watcher.url # Null => watcher.url = boot.bound)

\* the gateway's half of C11: the bound port and the logged port are p+k
BootBindsFirstFree ==
    (OccupiedRun < BindTries /\ boot.bound # Null)
    => (/\ boot.bound = EnvPort + OccupiedRun
        /\ boot.logged = boot.bound)

\* C12: the first bind attempt is on the requested port; every further attempt
\* follows an attempt that failed with EADDRINUSE and is on the next sequential
\* port, and after such a failure (attempts left) the next attempt is prepared on
\* that port; after any other fault main() has thrown and nothing more is tried.
C12_SequentialRetry ==
    LET t == boot.tried
        n == Len(t) IN
    /\ n >= 1 => t[1].port = EnvPort
    /\ \A i \in 1..(n - 1) :
          t[i].fault = "EADDRINUSE" /\ t[i + 1].port = t[i].port + 1
    /\ (n >= 1 /\ t[n].fault = "EADDRINUSE" /\ n < BindTries)
          => (/\ boot.pc \in {"startServer", "discover", "listen"}
              /\ boot.currentPort = t[n].port + 1)
    /\ (n >= 1 /\ t[n].fault \in OtherFaults)
          => (boot.pc = "threw" /\ boot.bound = Null)

\* C12 witness: two EADDRINUSE retries on consecutive ports, then another fault
C12_Witness ==
    /\ Len(boot.tried) = 3
    /\ boot.tried[1].fault = "EADDRINUSE"
    /\ boot.tried[2].fault = "EADDRINUSE"
    /\ boot.tried[3].fault \in OtherFaults
    /\ boot.pc = "threw"

\* all ten ports from the requested one on are in use
AllOccupied == OccupiedRun = BindTries

\* C13: with all ten ports in use the gateway never listens and never accepts a
\* request; when every attempt failed with EADDRINUSE the process has exited with
\* code 1, and it exits this way only after exactly ten attempts.
C13_AllPortsTakenIsFatal ==
    AllOccupied
    => (/\ boot.bound = Null
        /\ boot.served = 0
        /\ boot.pc # "running"
        /\ boot.pc = "exited" => (boot.exitCode = 1 /\ Len(boot.tried) = BindTries)
        /\ (/\ Len(boot.tried) = BindTries
            /\ \A i \in 1..BindTries : boot.tried[i].fault = "EADDRINUSE")
              => (boot.pc = "exited" /\ boot.exitCode = 1))

\* C13 witness: ten EADDRINUSE failures, then exit code 1
C13_Witness ==
    /\ AllOccupied
    /\ boot.pc = "exited"
    /\ boot.exitCode = 1
    /\ Len(boot.tried) = BindTries

\* discovery has finished for every provider loadEnv registered
DiscoveryComplete ==
    /\ boot.pc \in {"listen", "running"}
    /\ boot.di = 0

\* C14: the listener is bound, and a request (such as GET /health) is accepted,
\* only after discoverProviders has gone through every configured provider.
C14_StartupBarrier ==
    (boot.bound # Null \/ boot.served > 0) => DiscoveryComplete

\* C14 witness: two providers were discovered, then the server listened and served
C14_Witness ==
    /\ Len(boot.order) = 2
    /\ boot.bound # Null
    /\ boot.served > 0

\* C15: a provider id is in the map only if its PROVIDER_<ID>_URL and
\* PROVIDER_<ID>_KEY are both set and non-empty, an entry with one half missing or
\* empty is not in the map, and every complete entry is (loading went on).
C15_ProviderNeedsUrlAndKey ==
    boot.pc \in {"discover", "listen", "running"}
    => (/\ \A n \in DOMAIN boot.provs :
              /\ boot.provs[n].from \in EnvIds
              /\ ToLowerCase(boot.provs[n].from) = n
              /\ environ[boot.provs[n].from].url = "set"
              /\ environ[boot.provs[n].from].key = "set"
        /\ \A id \in EnvIds :
              (environ[id].url = "set" /\ environ[id].key = "set")
              <=> ToLowerCase(id) \in DOMAIN boot.provs)

\* C15 witness: one entry lacks its key, the other is complete and registered
C15_Witness ==
    /\ environ["A"].url = "set" /\ environ["A"].key \in {"unset", "empty"}
    /\ environ["B"].url = "set" /\ environ["B"].key = "set"
    /\ boot.pc = "running"
    /\ DOMAIN boot.provs = {"b"}

\* discoverProviders is done with the provider at position i of the map
Discovered(i) ==
    \/ boot.pc \in {"listen", "running"} /\ i <= Len(boot.order)
    \/ boot.pc = "discover" /\ i < boot.di

\* C28: discovery makes both probes of every registered provider, the bearer-token
\* probe and the api-key probe, whatever the other one returned (also when the
\* first returned a non-empty model list), and the model list holds the ids of
\* every probe that succeeded.
C28_BothProbesAlways ==
    \A i \in 1..Len(boot.order) :
        Discovered(i)
        => LET pr == boot.provs[boot.order[i]] IN
           /\ pr.probed = {"openai", "anthropic"}
           /\ pr.openai => (pr.models = {} \/ OpenAIModels \subseteq pr.models)

\* what discoverProviders does: the bearer-token probe always, the api-key probe
\* unless the first one succeeded with a non-empty model list
SecondProbeOnlyWithoutModels ==
    \A i \in 1..Len(boot.order) :
        Discovered(i)
        => LET pr == boot.provs[boot.order[i]] IN
           /\ "openai" \in pr.probed
           /\ "anthropic" \notin pr.probed <=> (pr.openai /\ pr.models = OpenAIModels
                                                /\ ~pr.anthropic)

C30_DiscoveryOncePerBoot ==
    /\ boot.loads <= 1
    /\ \A n \in DOMAIN boot.probes : boot.probes[n] <= 1

\* what main() does: one loadEnv and one discovery round per bind attempt
DiscoveryPerBindAttempt ==
    /\ boot.loads \in {Len(boot.tried), Len(boot.tried) + 1}
    /\ \A n \in DOMAIN boot.probes : boot.probes[n] <= boot.loads
    /\ boot.pc = "running"
          => (/\ boot.loads = Len(boot.tried)
              /\ \A n \in DOMAIN boot.provs : boot.probes[n] = Len(boot.tried))

(***************************************************************************)
(*   PART IV: the first-generation server and its routers (SpecRouter)     *)
(*   server.ts as it handles requests through router/openai.ts and         *)
(*   router/anthropic.ts, which rotate over a provider's API keys          *)
(***************************************************************************)

\* ---- bounds of the model ----
MaxConns == 4      \* inbound connections modelled
MaxKeys  == 2      \* API keys per provider

Conns        == 1..MaxConns
RouterNames  == {"openai", "anthropic"}
\* what the handler finds in the body of a POST: the read fails, the text is not
\* JSON, there is no model, or the model resolves to one of the two providers
RouterBodies == {"readerror", "badjson", "nomodel", "openai", "anthropic"}
\* upstream statuses modelled
RouterStatuses == {200, 500}

\* a connection no client has opened yet
IdleConn == [phase |-> "idle", route |-> "", kind |-> "", status |-> 0]

\* server.ts sendJson / res.writeHead(status) + res.end
Respond(cn, status) == [cn EXCEPT !.phase = "done", !.route = "", !.status = status]

\* the async handleRequest rejected and nothing handles the rejection: the client
\* gets no response
Unhandled(cn) == [cn EXCEPT !.phase = "hung", !.route = ""]

\* the state of the routers: both cursors and the history of picks
Router == [oi |-> openaiKeyIndex, ai |-> anthropicKeyIndex, picks |-> picks]

\* an openai pick that leaves the cursor where it is (used as a mutant)
PickOpenAIKeyStuck(rt, keys) ==
    IF Len(keys) = 0 THEN [rt |-> rt, key |-> Null]
    ELSE LET key == keys[(rt.oi % Len(keys)) + 1] IN
         [rt |-> [rt EXCEPT !.picks.openai = Append(rt.picks.openai, key)],
          key |-> key]

\* router/openai.ts pickOpenAIKey(apiKeys)
PickOpenAIKey(rt, keys) ==
    IF Len(keys) = 0 THEN [rt |-> rt, key |-> Null]
    ELSE LET key == keys[(rt.oi % Len(keys)) + 1] IN
         [rt |-> [rt EXCEPT !.oi = (rt.oi + 1) % Len(keys),
                            !.picks.openai = Append(rt.picks.openai, key)],
          key |-> key]

\* an anthropic pick that shares the openai cursor (used as a mutant)
PickAnthropicKeySharedCursor(rt, keys) ==
    IF Len(keys) = 0 THEN [rt |-> rt, key |-> Null]
    ELSE LET key == keys[(rt.oi % Len(keys)) + 1] IN
         [rt |-> [rt EXCEPT !.oi = (rt.oi + 1) % Len(keys),
                            !.picks.anthropic = Append(rt.picks.anthropic, key)],
          key |-> key]

\* router/anthropic.ts pickAnthropicKey(apiKeys)
PickAnthropicKey(rt, keys) ==
    IF Len(keys) = 0 THEN [rt |-> rt, key |-> Null]
    ELSE LET key == keys[(rt.ai % Len(keys)) + 1] IN
         [rt |-> [rt EXCEPT !.ai = (rt.ai + 1) % Len(keys),
                            !.picks.anthropic = Append(rt.picks.anthropic, key)],
          key |-> key]

\* router/openai.ts handleOpenAIChatCompletions and router/anthropic.ts
\* handleAnthropicMessages, up to upstream.end(): pick a key; without one answer
\* 500, with one send the request upstream
HandleChat(cn, rt, name) ==
    LET pk == IF name = "openai" THEN PickOpenAIKey(rt, apiKeys.openai)
              ELSE PickAnthropicKey(rt, apiKeys.anthropic) IN
    [rt |-> pk.rt,
     cn |-> IF pk.key = Null THEN Respond(cn, 500)
            ELSE [cn EXCEPT !.phase = "upstream", !.route = ""]]

\* server.ts handleRequest (first generation), up to its first await
LegacyHandleRequest(cn, path, method) ==
    IF path = "/health" /\ method = "GET" THEN Respond(cn, 200)
    ELSE IF path = "/v1/models" /\ method = "GET" THEN Respond(cn, 200)
    ELSE IF path = "/v1/chat/completions" /\ method = "POST"
         THEN [cn EXCEPT !.phase = "reading", !.route = "chat"]
    ELSE IF path = "/v1/messages" /\ method = "POST"
         THEN [cn EXCEPT !.phase = "reading", !.route = "messages"]
    ELSE Respond(cn, 404)

\* server.ts handleRequest (first generation) after parseBody settled: a rejected
\* parseBody, JSON.parse(rawBody) and resolveAlias(undefined) all throw out of the
\* async handler, which has no try/catch; a chat completion goes to the provider
\* the model resolves to, a message always to Anthropic
LegacyHandleBody(cn, rt, kind) ==
    IF kind = "badjson" THEN [rt |-> rt, cn |-> Unhandled([cn EXCEPT !.kind = kind])]
    ELSE IF kind \in {"readerror", "nomodel"} THEN [rt |-> rt, cn |-> Unhandled(cn)]
    ELSE HandleChat(cn, rt, IF cn.route = "chat" THEN kind ELSE "anthropic")

\* ---- actions of the first-generation server ----

\* a client's request reaches the server; connections are numbered in arrival order
Accept(c) ==
    /\ serverUp
    /\ conn[c].phase = "idle"
    /\ IF c = 1 THEN TRUE ELSE conn[c - 1].phase # "idle"
    /\ \E path \in Paths, method \in Methods :
          conn' = [conn EXCEPT ![c] = LegacyHandleRequest(conn[c], path, method)]
    /\ UNCHANGED <<apiKeys, openaiKeyIndex, anthropicKeyIndex, picks, serverUp>>
    /\ UNCHANGED <<gwVars, mgrVars, bootVars, clVars>>

\* parseBody settles for a connection and the handler goes on. An unhandled
\* rejection ends the process (the default of Node 15 and later) or only logs a
\* warning (earlier versions).
LegacyBodyRead(c) ==
    /\ serverUp
    /\ conn[c].phase = "reading"
    /\ \E kind \in RouterBodies :
          LET h == LegacyHandleBody(conn[c], Router, kind) IN
          /\ conn' = [conn EXCEPT ![c] = h.cn]
          /\ openaiKeyIndex' = h.rt.oi
          /\ anthropicKeyIndex' = h.rt.ai
          /\ picks' = h.rt.picks
          /\ IF h.cn.phase = "hung" THEN serverUp' \in BOOLEAN ELSE serverUp' = serverUp
    /\ UNCHANGED apiKeys
    /\ UNCHANGED <<gwVars, mgrVars, bootVars, clVars>>

\* the upstream answers: res.writeHead(upstreamRes.statusCode), upstreamRes.pipe(res)
LegacyUpstreamResponse(c) ==
    /\ serverUp
    /\ conn[c].phase = "upstream"
    /\ \E status \in RouterStatuses : conn' = [conn EXCEPT ![c] = Respond(conn[c], status)]
    /\ UNCHANGED <<apiKeys, openaiKeyIndex, anthropicKeyIndex, picks, serverUp>>
    /\ UNCHANGED <<gwVars, mgrVars, bootVars, clVars>>

\* the upstream connection fails: upstream.on("error") answers 500
LegacyUpstreamError(c) ==
    /\ serverUp
    /\ conn[c].phase = "upstream"
    /\ conn' = [conn EXCEPT ![c] = Respond(conn[c], 500)]
    /\ UNCHANGED <<apiKeys, openaiKeyIndex, anthropicKeyIndex, picks, serverUp>>
    /\ UNCHANGED <<gwVars, mgrVars, bootVars, clVars>>

\* key lists of every length up to MaxKeys: key i of a provider is the number i
KeyLists == {[i \in 1..n |-> i] : n \in 0..MaxKeys}

InitRouter ==
    /\ apiKeys \in [RouterNames -> KeyLists]
    /\ openaiKeyIndex = 0
    /\ anthropicKeyIndex = 0
    /\ conn = [c \in Conns |-> IdleConn]
    /\ picks = [n \in RouterNames |-> <<>>]
    /\ serverUp = TRUE
    /\ NoGateway
    /\ MgrInit
    /\ foreign = <<>>
    /\ NoBoot
    /\ NoClient

NextRouter ==
    \E c \in Conns :
        \/ Accept(c)
        \/ LegacyBodyRead(c)
        \/ LegacyUpstreamResponse(c)
        \/ LegacyUpstreamError(c)

SpecRouter == InitRouter /\ [][NextRouter]_vars

(***************************************************************************)
(*     Claims about credential rotation and the first-generation server    *)
(*     (under SpecRouter)                                                  *)
(***************************************************************************)

WindowsComplete(hist, n) ==
    \A j \in 1..(Len(hist) - n + 1) :
        Cardinality({hist[i] : i \in j..(j + n - 1)}) = n

\* the cursor of a provider
Cursor(name) == IF name = "openai" THEN openaiKeyIndex ELSE anthropicKeyIndex

\* C17: however the handlers of concurrent requests interleave, each window of n
\* consecutive picks of a provider uses each of its n keys once, and the cursor of
\* a provider has advanced by its own picks only (it is their number modulo n).
C17_RotationUnderInterleaving ==
    \A name \in RouterNames :
        LET n == Len(apiKeys[name]) IN
        /\ WindowsComplete(picks[name], n)
        /\ Cursor(name) = IF n = 0 THEN 0 ELSE Len(picks[name]) % n

\* C17 witness: requests for both providers were in flight together and both
\* providers have been picked more often than one of them has keys
C17_Witness ==
    /\ Len(picks.openai) >= 2
    /\ Len(picks.anthropic) >= 2
    /\ Len(apiKeys.openai) = 2
    /\ Len(apiKeys.anthropic) >= 2
    /\ \E c1, c2 \in Conns : c1 # c2 /\ conn[c1].phase = "upstream" /\ conn[c2].phase = "upstream"

\* C19: a POST to a chat endpoint whose body is not valid JSON is answered 400,
\* leads to no upstream call, and the server keeps running.
C19_MalformedJsonIs400 ==
    \A c \in Conns :
        conn[c].kind = "badjson"
        => (/\ conn[c].phase = "done"
            /\ conn[c].status = 400
            /\ serverUp)

(***************************************************************************)
(*        PART V: the SDK's direct client (SpecClient, SpecClientLive)     *)
(***************************************************************************)

\* index.ts createPassy: retries = 3 unless the configuration gives another number
DefaultRetries == 3

\* ---- bounds of the model ----
MaxRetries == 3        \* the configured retries range over 0..MaxRetries

\* how one fetch of makeRequest can fail: the connection fails, AbortSignal.timeout
\* aborts it, or the provider answers with a status that is not 2xx
FetchErrors == {[kind |-> "network", status |-> 0],
                [kind |-> "timeout", status |-> 0],
                [kind |-> "status", status |-> 400],
                [kind |-> "status", status |-> 429],
                [kind |-> "status", status |-> 500]}

NoKeyError == [kind |-> "nokey", status |-> 0]
NoError    == [kind |-> "none", status |-> 0]

Max(a, b) == IF a >= b THEN a ELSE b

\* a makeRequest no caller has made yet, under a configuration
IdleClient(retries, hasKey) ==
    [pc |-> "idle", retries |-> retries, hasKey |-> hasKey,
     attempt |-> 0, errs |-> <<>>, thrown |-> NoError]

\* index.ts makeRequest(provider, endpoint, body, attempt) up to await fetch: without
\* an API key it throws before the try block, otherwise the POST is in flight
MakeRequest(cl, attempt) ==
    IF ~cl.hasKey
    THEN [cl EXCEPT !.pc = "threw", !.attempt = attempt, !.thrown = NoKeyError]
    ELSE [cl EXCEPT !.pc = "fetching", !.attempt = attempt]

\* a catch block that retries while attempt <= retries (used as a mutant)
CatchInclusive(cl, error) ==
    LET q == [cl EXCEPT !.errs = Append(cl.errs, error)] IN
    IF q.attempt <= q.retries
    THEN [q EXCEPT !.pc = "backoff"]
    ELSE [q EXCEPT !.pc = "threw", !.thrown = error]

\* index.ts makeRequest, catch (error): if (attempt < retries) wait 1000 * attempt
\* ms and return makeRequest(..., attempt + 1); otherwise throw error
Catch(cl, error) ==
    LET q == [cl EXCEPT !.errs = Append(cl.errs, error)] IN
    IF q.attempt < q.retries
    THEN [q EXCEPT !.pc = "backoff"]
    ELSE [q EXCEPT !.pc = "threw", !.thrown = error]

\* the caller (generateText, streamText) calls makeRequest with attempt = 1
ClientCall ==
    /\ client.pc = "idle"
    /\ client' = MakeRequest(client, 1)
    /\ UNCHANGED <<gwVars, mgrVars, bootVars, rtVars>>

\* fetch resolves with a 2xx response: return response
FetchOk ==
    /\ client.pc = "fetching"
    /\ client' = [client EXCEPT !.pc = "returned"]
    /\ UNCHANGED <<gwVars, mgrVars, bootVars, rtVars>>

\* fetch rejects (network error, the timeout's abort) or resolves with a response
\* that is not ok, for which makeRequest throws "Provider error (<status>)"
FetchFails ==
    /\ client.pc = "fetching"
    /\ \E error \in FetchErrors : client' = Catch(client, error)
    /\ UNCHANGED <<gwVars, mgrVars, bootVars, rtVars>>

\* the setTimeout(r, 1000 * attempt) of the catch block fires: the next attempt
BackoffTimer ==
    /\ client.pc = "backoff"
    /\ client' = MakeRequest(client, client.attempt + 1)
    /\ UNCHANGED <<gwVars, mgrVars, bootVars, rtVars>>

\* every fetch carries AbortSignal.timeout(timeout): it settles one way or another
FetchSettles == FetchOk \/ FetchFails

InitClient ==
    /\ \E retries \in 0..MaxRetries, hasKey \in BOOLEAN :
          client = IdleClient(retries, hasKey)
    /\ NoGateway
    /\ MgrInit
    /\ foreign = <<>>
    /\ NoBoot
    /\ NoRouter

NextClient ==
    \/ ClientCall
    \/ FetchOk
    \/ FetchFails
    \/ BackoffTimer

SpecClient == InitClient /\ [][NextClient]_vars

\* the caller makes its call, every fetch settles (by its timeout at the latest)
\* and the backoff timer fires
SpecClientLive ==
    /\ InitClient
    /\ [][NextClient]_vars
    /\ WF_vars(ClientCall)
    /\ WF_vars(FetchSettles)
    /\ WF_vars(BackoffTimer)

(***************************************************************************)
(*          Claims about the direct client (under SpecClientLive)          *)
(***************************************************************************)

\* the HTTP attempts a makeRequest call has made so far
Fetches == Len(client.errs) + (IF client.pc \in {"fetching", "returned"} THEN 1 ELSE 0)

\* attempts are bounded, a failure below the limit is followed by a next attempt,
\* and what is thrown at the end is the error of the last attempt
RetryDiscipline ==
    /\ Fetches <= Max(1, client.retries)
    /\ client.pc = "backoff" => client.attempt < client.retries
    /\ (client.pc = "threw" /\ client.hasKey)
          => /\ Fetches = Max(1, client.retries)
             /\ client.attempt = Fetches
             /\ client.thrown = client.errs[Len(client.errs)]

=============================================================================
